---- MODULE Spec2Model ----
(***************************************************************************)
(* A model of go-kwlib: the authenticated call engine (KWSession.Call),    *)
(* the chunk geometry (KWAPI.getChunkInfo), the resumable chunked upload   *)
(* (KWSession.Upload) and the transfer monitor (TransferMonitor/TMonitor). *)
(* Each subsystem has its own specification over the shared variables; the *)
(* variables of the other subsystems stay at their idle values.            *)
(***************************************************************************)
EXTENDS Integers, Sequences, FiniteSets, TLC

\* ------------------------------------------------------------------ bounds
\* Largest retry budget (KWAPI.Retries) the call engine is run with.
MaxRetries == 2
\* getChunkInfo inputs: totals are m * (b - d), m <= MaxMult, d <= MaxDelta.
MaxMult == 3
MaxDelta == 2
\* Upload: the largest totalSize/uploadedSize and totalChunks/uploadedChunks of a
\* server record, and the chunk index at which a run of the model is cut off.
MaxTotalSize == 4
MaxTotalChunks == 3
MaxChunkIndex == 8
\* TransferMonitor: the transfers registered, and the bytes one transfer records.
MaxTransfers == 1
MaxBytes == 1
\* AddError: the codes added to one error value.
MaxErrors == 2
\* web_downloader: the offsets sought, the bytes of a body, the calls made.
MaxOffset == 2
MaxBody == 2
MaxReads == 3
MaxSeeks == 2

\* --------------------------------------------------------- error constants
\* kw_api_error.go: ERR_AUTH_UNAUTHORIZED = 1 << iota, and the ones that follow.
ERR_AUTH_UNAUTHORIZED == 1
ERR_AUTH_PROFILE_CHANGED == 2
ERR_INVALID_GRANT == 8
ERR_INTERNAL_SERVER_ERROR == 512
ERR_ENTITY_EXISTS == 1024

\* Go's & and | on non-negative integers.
RECURSIVE BitAnd(_, _)
BitAnd(a, b) ==
    IF a = 0 \/ b = 0 THEN 0
    ELSE (a % 2) * (b % 2) + 2 * BitAnd(a \div 2, b \div 2)

RECURSIVE BitOr(_, _)
BitOr(a, b) ==
    IF a = 0 THEN b
    ELSE IF b = 0 THEN a
    ELSE (IF a % 2 = 1 \/ b % 2 = 1 THEN 1 ELSE 0) + 2 * BitOr(a \div 2, b \div 2)

\* const TOKEN_ERR = ERR_AUTH_PROFILE_CHANGED | ERR_INVALID_GRANT | ERR_AUTH_UNAUTHORIZED
TOKEN_ERR == BitOr(BitOr(ERR_AUTH_PROFILE_CHANGED, ERR_INVALID_GRANT), ERR_AUTH_UNAUTHORIZED)

\* ------------------------------------------------------------ error values
\* A Go error: nil, a *KWError carrying flag bits, or any other error value.
NilErr == [kind |-> "nil", flag |-> 0]
KWError(flag) == [kind |-> "kw", flag |-> flag]
OtherErr(kind) == [kind |-> kind, flag |-> 0]

\* A mutant of KWAPIError: the mask is ignored, every vendor error matches.
KWAPIError_AnyVendor(err, input) == err.kind = "kw"

\* func KWAPIError(err error, input int64) bool
KWAPIError(err, input) ==
    IF err.kind # "kw" THEN FALSE
    ELSE BitAnd(err.flag, input) # 0

\* The mask Call retries on: ERR_INTERNAL_SERVER_ERROR|TOKEN_ERR.
RetryMask == BitOr(ERR_INTERNAL_SERVER_ERROR, TOKEN_ERR)

\* func Critical(err error): a non-nil error is fatal (Fatal ends the process).
Critical(err) == err # NilErr

VARIABLES
    \* ---- KWSession.Call
    Retries,        \* KWAPI.Retries
    signature_key,  \* TRUE when KWAPI.secrets.signature_key is set
    TokenStore,     \* the stored token of s.Username: 0 = none, n > 0 = a token
    server,         \* what the server/transport answers to the next attempt
    resp,           \* what it answered to the attempt just made
    call_pc,        \* position in Call
    call_i,         \* the loop variable i
    call_err,       \* the named result err
    call_token,     \* reAuth's locals: the token refreshToken returned
    call_log,       \* what Call has done so far, in order
    AgentString,    \* KWAPI.AgentString, a field of the shared configuration
    \* ---- KWAPI.getChunkInfo
    MaxChunkSize,   \* KWAPI.MaxChunkSize
    total_size,     \* the argument
    chunk_size,     \* the local chunk_size
    total_chunks,   \* the result
    gci_pc,         \* position in getChunkInfo
    \* ---- KWSession.Upload
    upload_id,      \* the argument upload_id
    Data,           \* upload.Data: the listing the server returns for /rest/uploads
    upload_record,  \* the local upload_record
    ChunkSize,      \* the local ChunkSize
    ChunkIndex,     \* the local ChunkIndex
    transfered_bytes, \* the local transfered_bytes
    resp_data,      \* resp_data.ID
    up_pc,          \* position in Upload
    up_result,      \* what Upload returned: [id, err]
    up_tm,          \* the transfer record Upload registers: none, open or closed
    up_log,         \* the seeks of the source and the chunk submissions, in order
    up_answer,      \* the id the latest chunk answer carried: 0 = none, -1 = no answer yet
    \* ---- TransferMonitor / TMonitor: record r is made and used by thread r
    monitors,       \* transferDisplay.monitors: the registry, a sequence of records
    update_lock,    \* transferDisplay.update_lock: "free", or who holds it
    loops,          \* the background goroutines started and not yet returned
    flag,           \* flag[r]: TMonitor.flag
    total,          \* total[r]: TMonitor.total_size
    transfered,     \* transfered[r]: TMonitor.transfered
    offset,         \* offset[r]: TMonitor.offset
    logs,           \* logs[r]: persistent lines (Log) emitted for r, counted up to 2
    loop_logged,    \* loop_logged[r]: the background loop emitted a persistent line
    t_pc,           \* t_pc[r]: position of thread r
    t_tmp,          \* t_tmp[r]: the value thread r loaded and has not stored back
    t_did,          \* t_did[r]: what thread r has done: [seek, reclose]
    loop_pc,        \* position of the background loop
    loop_monitors,  \* its local monitors
    loop_i,         \* its index i of the cleanup pass
    loop_v,         \* its position in the display pass
    loop_n,         \* its inner counter i of the display pass
    sp_pc,          \* sp_pc[p]: position of process p in showTransfer/showRate
    sp_rec,         \* sp_rec[p]: the record it shows
    sp_tmp,         \* sp_tmp[p]: the flag value loaded by Set/Unset
    \* ---- KWError.AddError / KWAPIError
    err_e,          \* the error value: a *KWError with its flag, or another error
    err_codes,      \* the codes passed to AddError so far, as they were written
    \* ---- web_downloader
    wd_flag,        \* web_downloader.flag
    wd_range,       \* the Range header of W.req: the offset, or NoHeader
    wd_offset,      \* W.offset
    wd_resp,        \* W.resp: NilResp, or the answer's status and Content-Range
    wd_body,        \* the bytes left in W.resp.Body
    wd_closed,      \* W.resp.Body has been closed
    wd_pc,          \* "ready", or "panic" after a nil dereference
    wd_last,        \* what the latest Read returned: [n, err]
    wd_reads,       \* the Read calls made
    wd_seeks,       \* the Seek calls made
    wd_sought,      \* the offset of the latest accepted Seek, or NoHeader
    wd_gets,        \* the HTTP GETs issued
    wd_get_range,   \* the Range header the GET carried
    wd_delivered,   \* the body bytes delivered to the caller so far
    \* ---- KWAPI.decodeJSON with K.Snoop
    Snoop,          \* K.Snoop
    sn_body,        \* the response body
    sn_output,      \* TRUE when the output argument is not nil
    sn_pc,          \* "decodeJSON" before the call, "return" after it
    sn_err,         \* the error decodeJSON returned
    sn_emitted,     \* what was written to the trace, in order
    \* ---- TMonitor.RecordTransfer called by several goroutines on one record
    rt_transfered,  \* t.transfered of the shared record
    rt_start,       \* its value before the first call
    rt_pc,          \* per caller: "idle", or "Store" between the load and the store
    rt_sz,          \* per caller: current_sz of the call in progress
    rt_tmp,         \* per caller: the value atomic.LoadInt64 returned
    rt_calls,       \* per caller: the calls that have returned
    rt_recorded,    \* the sum of current_sz over the calls that have returned
    rt_seen,        \* the value showRate read last
    \* ---- streamReadCloser, the body of one chunk's request
    st_chunkSize,   \* s.chunkSize, the declared size of the chunk
    st_size,        \* s.size, the bytes read from the source so far
    st_rlen,        \* len(s.r_buff)
    st_wbuff,       \* s.w_buff: what the multipart writer has written and not yet handed out
    st_eof,         \* s.eof
    st_closes,      \* the calls of s.Close(), the multipart writer's Close
    st_source,      \* the bytes the source still holds
    st_held,        \* the bytes the source held when the chunk began
    st_tm,          \* the bytes given to s.tm.RecordTransfer
    st_out,         \* what Read has handed to its caller, in order
    st_ret,         \* "open", or the error of the last Read: "EOF" or "error"
    \* ---- KWAPI.respError on one response, and Call's test of its result
    re_resp,        \* the response: its status line and the form of its body
    re_read,        \* TRUE when ioutil.ReadAll of the body succeeds
    re_pc,          \* "respError", then "Call", then where Call goes
    re_err          \* the error respError returned

callVars == <<Retries, signature_key, TokenStore, server, resp, call_pc, call_i, call_err,
              call_token, call_log, AgentString>>
chunkVars == <<MaxChunkSize, total_size, chunk_size, total_chunks, gci_pc>>
uploadVars == <<upload_id, Data, upload_record, ChunkSize, ChunkIndex, transfered_bytes,
                resp_data, up_pc, up_result, up_tm, up_log, up_answer>>
monVars == <<monitors, update_lock, loops, flag, total, transfered, offset, logs,
             loop_logged, t_pc, t_tmp, t_did, loop_pc, loop_monitors, loop_i, loop_v,
             loop_n, sp_pc, sp_rec, sp_tmp>>
errVars == <<err_e, err_codes>>
dlVars == <<wd_flag, wd_range, wd_offset, wd_resp, wd_body, wd_closed, wd_pc, wd_last,
            wd_reads, wd_seeks, wd_sought, wd_gets, wd_get_range, wd_delivered>>
snoopVars == <<Snoop, sn_body, sn_output, sn_pc, sn_err, sn_emitted>>
sharedVars == <<rt_transfered, rt_start, rt_pc, rt_sz, rt_tmp, rt_calls, rt_recorded,
                rt_seen>>
streamVars == <<st_chunkSize, st_size, st_rlen, st_wbuff, st_eof, st_closes, st_source,
                st_held, st_tm, st_out, st_ret>>
respVars == <<re_resp, re_read, re_pc, re_err>>
vars == <<callVars, chunkVars, uploadVars, monVars, errVars, dlVars, snoopVars,
          sharedVars, streamVars, respVars>>

\* ======================================================= KWSession.Call
\* The flag sets of the vendor errors the server answers with.
VendorFlags == {0, ERR_AUTH_UNAUTHORIZED, ERR_INVALID_GRANT,
                ERR_INTERNAL_SERVER_ERROR, ERR_ENTITY_EXISTS}

\* What one attempt meets: a transport failure (client.Do's own error), a non-2xx
\* answer with a vendor payload (respError's *KWError), a 2xx answer whose body
\* decodes, or a 2xx answer whose body does not decode.
ServerAnswers ==
    {[kind |-> "transport", flag |-> 0], [kind |-> "ok", flag |-> 0],
     [kind |-> "undecodable", flag |-> 0]}
    \cup {[kind |-> "vendor", flag |-> f] : f \in VendorFlags}

\* func (c *KWAPIClient) Do: the error of one attempt.
DoErr(answer) ==
    CASE answer.kind = "transport" -> OtherErr("transport")
      [] answer.kind = "vendor" -> KWError(answer.flag)
      [] OTHER -> NilErr

\* func (K *KWAPI) decodeJSON: nil, or a fmt.Errorf error (never a *KWError).
DecodeErr(answer) ==
    IF answer.kind = "undecodable" THEN OtherErr("decode") ELSE NilErr

\* One entry of call_log: what was done, its number or outcome, and for an attempt
\* the answer it met.
NoAnswer == [kind |-> "none", flag |-> 0]
Event(ev, arg, answer) == [ev |-> ev, arg |-> arg, answer |-> answer]
Logged(ev, arg) == call_log' = Append(call_log, Event(ev, arg, NoAnswer))

\* A mutant of LoopCond: one attempt too many.
LoopCond_OffByOne(i_, retries) == i_ <= retries + 1

\* for i := 0; i <= int(s.Retries); i++
LoopCond(i_, retries) == i_ <= retries

\* time.Sleep((time.Second * time.Duration(i+1)) * time.Duration(i+1)), in seconds.
Backoff(i_) == (i_ + 1) * (i_ + 1)

\* setToken (not in the source files): it attaches the bearer token to the request,
\* authenticating from scratch when there is none or when clear is set. Its
\* outcomes: whether it succeeded and the token store it leaves.
setToken(store, clear) ==
    IF store # 0 /\ ~clear
    THEN {[ok |-> TRUE, store |-> store], [ok |-> FALSE, store |-> store]}
    ELSE {[ok |-> TRUE, store |-> store + 1], [ok |-> FALSE, store |-> store],
          [ok |-> FALSE, store |-> 0]}

\* refreshToken (not in the source files): a new token, or 0 when the refresh failed.
refreshToken(existing) == {0, existing + 1}

\* The other subsystems, idle.
ChunkIdle ==
    /\ MaxChunkSize = 0
    /\ total_size = 0
    /\ chunk_size = 0
    /\ total_chunks = 0
    /\ gci_pc = "idle"

ZeroRecord == [ID |-> 0, TotalSize |-> 0, TotalChunks |-> 0, UploadedSize |-> 0,
               UploadedChunks |-> 0]

UploadIdle ==
    /\ upload_id = 0
    /\ Data = <<>>
    /\ upload_record = ZeroRecord
    /\ ChunkSize = 0
    /\ ChunkIndex = 0
    /\ transfered_bytes = 0
    /\ resp_data = 0
    /\ up_pc = "idle"
    /\ up_result = [id |-> 0, err |-> NilErr]
    /\ up_tm = "none"
    /\ up_log = <<>>
    /\ up_answer = -1

\* The records (and their threads), and the processes: 0 is the background loop.
Records == 1..MaxTransfers
Procs == 0..MaxTransfers

MonitorIdle ==
    /\ monitors = <<>>
    /\ update_lock = "free"
    /\ loops = 0
    /\ flag = [r \in Records |-> 0]
    /\ total = [r \in Records |-> 0]
    /\ transfered = [r \in Records |-> 0]
    /\ offset = [r \in Records |-> 0]
    /\ logs = [r \in Records |-> 0]
    /\ loop_logged = [r \in Records |-> FALSE]
    /\ t_pc = [r \in Records |-> "new"]
    /\ t_tmp = [r \in Records |-> 0]
    /\ t_did = [r \in Records |-> [seek |-> FALSE, reclose |-> FALSE]]
    /\ loop_pc = "off"
    /\ loop_monitors = <<>>
    /\ loop_i = 0
    /\ loop_v = 0
    /\ loop_n = 0
    /\ sp_pc = [p \in Procs |-> "ret"]
    /\ sp_rec = [p \in Procs |-> 0]
    /\ sp_tmp = [p \in Procs |-> 0]

\* The error value before any code is added: NewKWError().
ErrorIdle ==
    /\ err_e = KWError(0)
    /\ err_codes = <<>>

\* No Range header set, and W.resp before the request is made.
NoHeader == -1
NilResp == [status |-> 0, content_range |-> <<>>]

\* The web_downloader as ExtDownload returns it.
DownloadIdle ==
    /\ wd_flag = 0
    /\ wd_range = NoHeader
    /\ wd_offset = 0
    /\ wd_resp = NilResp
    /\ wd_body = 0
    /\ wd_closed = FALSE
    /\ wd_pc = "ready"
    /\ wd_last = [n |-> 0, err |-> NilErr]
    /\ wd_reads = 0
    /\ wd_seeks = 0
    /\ wd_sought = NoHeader
    /\ wd_gets = 0
    /\ wd_get_range = NoHeader
    /\ wd_delivered = 0

\* A JSON field that the body does not hold.
NoField == "-"

\* Tracing is off and no response has been decoded.
SnoopIdle ==
    /\ Snoop = FALSE
    /\ sn_body = [form |-> "empty", fits |-> FALSE,
                  access_token |-> NoField, refresh_token |-> NoField]
    /\ sn_output = FALSE
    /\ sn_pc = "return"
    /\ sn_err = NilErr
    /\ sn_emitted = <<>>

\* The goroutines that call RecordTransfer on the one shared record.
MaxCallers == 2
Callers == 1..MaxCallers

SharedIdle ==
    /\ rt_transfered = 0
    /\ rt_start = 0
    /\ rt_pc = [c \in Callers |-> "idle"]
    /\ rt_sz = [c \in Callers |-> 0]
    /\ rt_tmp = [c \in Callers |-> 0]
    /\ rt_calls = [c \in Callers |-> 0]
    /\ rt_recorded = 0
    /\ rt_seen = 0

\* make([]byte, 4096) and the test 's.chunkSize-s.size <= 4096' of Read: the
\* length of the read buffer, scaled down.
RBuffLen == 2

\* No chunk is being sent.
StreamIdle ==
    /\ st_chunkSize = 0
    /\ st_size = 0
    /\ st_rlen = RBuffLen
    /\ st_wbuff = <<>>
    /\ st_eof = FALSE
    /\ st_closes = 0
    /\ st_source = 0
    /\ st_held = 0
    /\ st_tm = 0
    /\ st_out = <<>>
    /\ st_ret = "open"

\* No response: KWAPIClient.Do has not been called.
NoBody == [form |-> "empty", codes |-> <<>>]
NoResp == [StatusCode |-> 0, Status |-> "", Body |-> NoBody]

RespIdle ==
    /\ re_resp = NoResp
    /\ re_read = TRUE
    /\ re_pc = "return"
    /\ re_err = NilErr

\* const NONE = "", the empty agent string, and the agent strings a caller sets.
NONE == ""
AgentStrings == {NONE, "custom/2.0"}

CallIdle ==
    /\ Retries = 0
    /\ signature_key = FALSE
    /\ TokenStore = 0
    /\ server = [kind |-> "ok", flag |-> 0]
    /\ resp = [kind |-> "ok", flag |-> 0]
    /\ call_pc = "idle"
    /\ call_i = 0
    /\ call_err = NilErr
    /\ call_token = 0
    /\ call_log = <<>>
    /\ AgentString = NONE

InitCall ==
    /\ Retries \in 0..MaxRetries
    /\ signature_key \in BOOLEAN
    /\ TokenStore \in {0, 1}
    /\ server \in ServerAnswers
    /\ resp = [kind |-> "ok", flag |-> 0]
    /\ call_pc = "NewRequest"
    /\ call_i = 0
    /\ call_err = NilErr
    /\ call_token = 0
    /\ call_log = <<>>
    /\ AgentString \in AgentStrings
    /\ ChunkIdle
    /\ UploadIdle
    /\ MonitorIdle
    /\ ErrorIdle
    /\ DownloadIdle
    /\ SnoopIdle
    /\ SharedIdle
    /\ StreamIdle
    /\ RespIdle

CallFrame ==
    UNCHANGED <<Retries, signature_key, chunkVars, uploadVars, monVars, errVars, dlVars,
                snoopVars, sharedVars,
                streamVars, respVars>>

\* func (s KWSession) NewRequest, lines 329-331: s is a copy of the session, but
\* AgentString is a field of the *KWAPI it embeds, so the assignment writes the
\* shared configuration.
DefaultAgent(agent) == IF agent = NONE THEN "kwlib/1.0" ELSE agent

\* Call, lines 345-391: NewRequest (whose http.NewRequest or setToken may fail)
\* and the parameters.
NewRequest ==
    /\ call_pc = "NewRequest"
    /\ \E built \in BOOLEAN, r \in setToken(TokenStore, FALSE), params_ok \in BOOLEAN :
        IF ~built
        THEN /\ call_err' = OtherErr("request")
             /\ call_pc' = "return"
             /\ UNCHANGED <<TokenStore, AgentString>>
        ELSE /\ AgentString' = DefaultAgent(AgentString)
             /\ TokenStore' = r.store
             /\ IF ~r.ok THEN call_err' = OtherErr("auth") /\ call_pc' = "return"
                ELSE IF ~params_ok
                THEN call_err' = OtherErr("params") /\ call_pc' = "return"
                ELSE call_err' = NilErr /\ call_pc' = "loop"
    /\ UNCHANGED <<server, resp, call_i, call_token, call_log>>
    /\ CallFrame

\* The loop head, line 396: another pass, or the return of line 443.
LoopHead ==
    /\ call_pc = "loop"
    /\ call_pc' = IF LoopCond(call_i, Retries) THEN "Do" ELSE "return"
    /\ UNCHANGED <<TokenStore, server, resp, call_i, call_err, call_token, call_log>>
    /\ UNCHANGED AgentString
    /\ CallFrame

\* Lines 417-419: one HTTP attempt; the server then holds its answer to the next one.
Do ==
    /\ call_pc = "Do"
    /\ resp' = server
    /\ server' \in ServerAnswers
    /\ call_err' = DoErr(server)
    /\ call_log' = Append(call_log, Event("attempt", call_i + 1, server))
    /\ call_pc' = "afterDo"
    /\ UNCHANGED <<TokenStore, call_i, call_token>>
    /\ UNCHANGED AgentString
    /\ CallFrame

\* Lines 420-429: retry through reAuth, or give up, or go on to decode.
AfterDo ==
    /\ call_pc = "afterDo"
    /\ call_pc' = IF call_err # NilErr /\ KWAPIError(call_err, RetryMask) THEN "reAuth"
                  ELSE IF call_err # NilErr THEN "return"
                  ELSE "decodeJSON"
    /\ UNCHANGED <<TokenStore, server, resp, call_i, call_err, call_token, call_log>>
    /\ UNCHANGED AgentString
    /\ CallFrame

\* Lines 431-441: decode the answer; a decode error is no *KWError, so this breaks.
DecodeJSON ==
    /\ call_pc = "decodeJSON"
    /\ call_err' = DecodeErr(resp)
    /\ call_pc' = IF DecodeErr(resp) # NilErr /\ KWAPIError(DecodeErr(resp), RetryMask)
                  THEN "reAuth" ELSE "return"
    /\ UNCHANGED <<TokenStore, server, resp, call_i, call_token, call_log>>
    /\ UNCHANGED AgentString
    /\ CallFrame

\* reAuth, lines 398-402: with no signature key, load the stored token. The entry
\* logged is reAuth's start: 1 when the load succeeded, -1 when it failed, 0 when a
\* signature key is set and nothing is loaded.
ReAuthLoad ==
    /\ call_pc = "reAuth"
    /\ IF signature_key
       THEN /\ Logged("reAuth", 0)
            /\ call_pc' = "reAuthSetToken"
            /\ UNCHANGED <<call_err, call_token>>
       ELSE \E load_ok \in BOOLEAN :
              IF load_ok
              THEN /\ call_token' = TokenStore
                   /\ Logged("reAuth", 1)
                   /\ call_pc' = "refreshToken"
                   /\ UNCHANGED call_err
              ELSE /\ Logged("reAuth", -1)
                   /\ call_err' = OtherErr("store")
                   /\ call_pc' = "return"
                   /\ UNCHANGED call_token
    /\ UNCHANGED <<TokenStore, server, resp, call_i>>
    /\ UNCHANGED AgentString
    /\ CallFrame

\* reAuth, line 403: refresh the loaded token.
RefreshToken ==
    /\ call_pc = "refreshToken"
    /\ \E token \in refreshToken(call_token) :
        /\ call_token' = token
        /\ Logged("refresh", token)
        /\ call_pc' = IF token # 0 THEN "Save" ELSE "Critical"
    /\ UNCHANGED <<TokenStore, server, resp, call_i, call_err>>
    /\ UNCHANGED AgentString
    /\ CallFrame

\* reAuth, lines 404-406: save the refreshed token.
Save ==
    /\ call_pc = "Save"
    /\ \E save_ok \in BOOLEAN :
        IF save_ok
        THEN /\ TokenStore' = call_token
             /\ Logged("save", call_token)
             /\ call_pc' = "attach"
             /\ UNCHANGED call_err
        ELSE /\ Logged("save", 0)
             /\ call_err' = OtherErr("store")
             /\ call_pc' = "return"
             /\ UNCHANGED TokenStore
    /\ UNCHANGED <<server, resp, call_i, call_token>>
    /\ UNCHANGED AgentString
    /\ CallFrame

\* A mutant of Attach: the failure of setToken is dropped and the call retries.
Attach_IgnoresFailure ==
    /\ call_pc = "attach"
    /\ \E r \in setToken(TokenStore, FALSE) :
        /\ TokenStore' = r.store
        /\ Logged("attach", IF r.ok THEN 1 ELSE 0)
        /\ call_pc' = "Sleep"
    /\ UNCHANGED <<server, resp, call_i, call_err, call_token>>
    /\ UNCHANGED AgentString
    /\ CallFrame

\* reAuth, lines 407-409: attach the saved token to the request.
Attach ==
    /\ call_pc = "attach"
    /\ \E r \in setToken(TokenStore, FALSE) :
        /\ TokenStore' = r.store
        /\ Logged("attach", IF r.ok THEN 1 ELSE 0)
        /\ call_pc' = IF r.ok THEN "Sleep" ELSE "Critical"
    /\ UNCHANGED <<server, resp, call_i, call_err, call_token>>
    /\ UNCHANGED AgentString
    /\ CallFrame

\* reAuth, lines 411-412: Critical on the error made here, then Delete.
CriticalDelete ==
    /\ call_pc = "Critical"
    /\ IF Critical(OtherErr("Token is no longer valid"))
       THEN /\ call_pc' = "fatal"
            /\ Logged("fatal", 0)
            /\ UNCHANGED TokenStore
       ELSE /\ TokenStore' = 0
            /\ Logged("delete", 0)
            /\ call_pc' = "reAuthSetToken"
    /\ UNCHANGED <<server, resp, call_i, call_err, call_token>>
    /\ UNCHANGED AgentString
    /\ CallFrame

\* reAuth, line 414: return s.setToken(req, KWAPIError(err, TOKEN_ERR)).
ReAuthSetToken ==
    /\ call_pc = "reAuthSetToken"
    /\ \E r \in setToken(TokenStore, KWAPIError(call_err, TOKEN_ERR)) :
        /\ TokenStore' = r.store
        /\ Logged("setToken", IF r.ok THEN 1 ELSE 0)
        /\ IF r.ok THEN call_pc' = "Sleep" /\ UNCHANGED call_err
           ELSE call_pc' = "return" /\ call_err' = OtherErr("auth")
    /\ UNCHANGED <<server, resp, call_i, call_token>>
    /\ UNCHANGED AgentString
    /\ CallFrame

\* Lines 425-426 and 437-438: back off, then continue with i++.
Sleep ==
    /\ call_pc = "Sleep"
    /\ Logged("sleep", Backoff(call_i))
    /\ call_i' = call_i + 1
    /\ call_pc' = "loop"
    /\ UNCHANGED <<TokenStore, server, resp, call_err, call_token>>
    /\ UNCHANGED AgentString
    /\ CallFrame

NextCall ==
    \/ NewRequest \/ LoopHead \/ Do \/ AfterDo \/ DecodeJSON
    \/ ReAuthLoad \/ RefreshToken \/ Save \/ Attach \/ CriticalDelete
    \/ ReAuthSetToken \/ Sleep

CallSpec == InitCall /\ [][NextCall]_vars

\* =================================================== KWAPI.getChunkInfo
\* const kw_chunk_size_max, kw_chunk_size_min
kw_chunk_size_max == 68157440
kw_chunk_size_min == 1048576

\* A mutant of ClampChunkSize: the lower clamp is missing.
ClampChunkSize_NoMin(max_chunk_size) ==
    IF max_chunk_size = 0 \/ max_chunk_size > kw_chunk_size_max
    THEN kw_chunk_size_max ELSE max_chunk_size

\* getChunkInfo, lines 26-34: chunk_size after the two clamps.
ClampChunkSize(max_chunk_size) ==
    LET c == IF max_chunk_size = 0 \/ max_chunk_size > kw_chunk_size_max
             THEN kw_chunk_size_max ELSE max_chunk_size
    IN IF c <= kw_chunk_size_min THEN kw_chunk_size_min ELSE c

\* A mutant of Decrement: the candidate goes down two at a time.
Decrement_ByTwo(c) == c - 2

\* getChunkInfo, line 41: chunk_size--
Decrement(c) == c - 1

\* The values of KWAPI.MaxChunkSize tried: unset, negative, below, at and between
\* the limits, and above them.
MaxChunkSizes ==
    {-1, 0, 1, kw_chunk_size_min - 1, kw_chunk_size_min, kw_chunk_size_min + 1,
     2 * kw_chunk_size_min, kw_chunk_size_max - 1, kw_chunk_size_max,
     kw_chunk_size_max + 1}

\* The total sizes tried with the bound b: small ones, and the multiples of the
\* sizes just below b (their largest divisor <= b is at most MaxDelta below b).
TotalSizes(b) ==
    {-1, 0, 1} \cup {m * (b - d) : m \in 1..MaxMult, d \in 0..MaxDelta}

InitChunk ==
    /\ MaxChunkSize \in MaxChunkSizes
    /\ total_size \in TotalSizes(ClampChunkSize(MaxChunkSize))
    /\ chunk_size = 0
    /\ total_chunks = 0
    /\ gci_pc = "clamp"
    /\ CallIdle
    /\ UploadIdle
    /\ MonitorIdle
    /\ ErrorIdle
    /\ DownloadIdle
    /\ SnoopIdle
    /\ SharedIdle
    /\ StreamIdle
    /\ RespIdle

ChunkFrame ==
    UNCHANGED <<MaxChunkSize, total_size, callVars, uploadVars, monVars, errVars, dlVars,
                snoopVars, sharedVars,
                streamVars, respVars>>

\* Lines 26-34.
Clamp ==
    /\ gci_pc = "clamp"
    /\ chunk_size' = ClampChunkSize(MaxChunkSize)
    /\ gci_pc' = "compare"
    /\ UNCHANGED total_chunks
    /\ ChunkFrame

\* Lines 36-38: a total within the bound is one chunk.
OneChunk ==
    /\ gci_pc = "compare"
    /\ IF total_size <= chunk_size
       THEN total_chunks' = 1 /\ gci_pc' = "done"
       ELSE total_chunks' = total_chunks /\ gci_pc' = "loop"
    /\ UNCHANGED chunk_size
    /\ ChunkFrame

\* Lines 40-42: one pass of the loop.
DecrementStep ==
    /\ gci_pc = "loop"
    /\ total_size % chunk_size > 0
    /\ chunk_size' = Decrement(chunk_size)
    /\ UNCHANGED <<total_chunks, gci_pc>>
    /\ ChunkFrame

\* Line 44.
ReturnChunks ==
    /\ gci_pc = "loop"
    /\ ~(total_size % chunk_size > 0)
    /\ total_chunks' = total_size \div chunk_size
    /\ gci_pc' = "done"
    /\ UNCHANGED chunk_size
    /\ ChunkFrame

NextChunk == Clamp \/ OneChunk \/ DecrementStep \/ ReturnChunks

ChunkSpec == InitChunk /\ [][NextChunk]_vars

\* ---------------------------------------- the claims about getChunkInfo
\* C3: the chunk size getChunkInfo ends with lies in [1,048,576; 68,157,440].
C3_FinalChunkSizeWithinLimits ==
    gci_pc = "done" => chunk_size \in kw_chunk_size_min..kw_chunk_size_max

\* The reference bound: MaxChunkSize clamped to [1 MiB, 68 MiB], 0 meaning 68 MiB.
ReferenceBound ==
    IF MaxChunkSize = 0 THEN 68157440
    ELSE IF MaxChunkSize < 1048576 THEN 1048576
    ELSE IF MaxChunkSize > 68157440 THEN 68157440
    ELSE MaxChunkSize

\* No size above c, up to the reference bound, divides the total.
NoLargerDivisor(c) == \A d \in (c + 1)..ReferenceBound : total_size % d # 0

\* C4: getChunkInfo returns 1 when the total is within the reference bound b, and
\* otherwise total / c for the largest c <= b dividing the total, so that the
\* count times c is the total; the loop's candidate stays within 1..b and passes
\* over no divisor, so the loop ends.
C4_ChunkCountMatchesReference ==
    /\ gci_pc \in {"compare", "loop", "done"} =>
         /\ chunk_size \in 1..ReferenceBound
         /\ NoLargerDivisor(chunk_size)
    /\ gci_pc = "done" =>
         IF total_size <= ReferenceBound THEN total_chunks = 1
         ELSE /\ total_size % chunk_size = 0
              /\ total_chunks = total_size \div chunk_size
              /\ total_chunks * chunk_size = total_size

C4_Witness ==
    /\ gci_pc = "done"
    /\ MaxChunkSize = 2 * kw_chunk_size_min
    /\ total_size = 3 * (2 * kw_chunk_size_min - 2)
    /\ chunk_size = 2 * kw_chunk_size_min - 2
    /\ total_chunks = 3

\* ------------------------------------------------- the claims about Call
Returned == call_pc \in {"return", "fatal"}
AttemptEvents == {k \in DOMAIN call_log : call_log[k].ev = "attempt"}
Attempts == Cardinality(AttemptEvents)
ReAuths == Cardinality({k \in DOMAIN call_log : call_log[k].ev = "reAuth"})
\* The entry of attempt number n, when it was made.
AttemptEntry(n) == CHOOSE k \in AttemptEvents : call_log[k].arg = n
LastEvent == call_log[Len(call_log)]

\* Attempt 1 met a transport failure, and attempt 2 meets (or would meet) a 2xx
\* answer that decodes.
TransportThenSuccess ==
    /\ Retries >= 1
    /\ Attempts >= 1
    /\ call_log[AttemptEntry(1)].answer.kind = "transport"
    /\ IF Attempts >= 2 THEN call_log[AttemptEntry(2)].answer.kind = "ok"
       ELSE server.kind = "ok"

\* C1: with a retry budget of at least 1, when attempt 1 fails with a transport
\* error and attempt 2 would succeed, Call makes a second attempt and returns
\* success, with one reauthentication exactly if the failure's bits intersect the
\* token-error mask (a transport error carries no bits).
C1_TransportFailureRetried ==
    (Returned /\ TransportThenSuccess) =>
        /\ Attempts >= 2
        /\ call_pc = "return"
        /\ call_err = NilErr
        /\ ReAuths = IF KWAPIError(DoErr(call_log[AttemptEntry(1)].answer), TOKEN_ERR)
                     THEN 1 ELSE 0

\* C6: one invocation of Call issues at most Retries + 1 HTTP attempts, numbered
\* 1..Retries + 1, whatever the server answers.
C6_AtMostRetriesPlusOneAttempts ==
    /\ Attempts <= Retries + 1
    /\ \A k \in AttemptEvents : call_log[k].arg \in 1..(Retries + 1)
    /\ call_i <= Retries + 1

C6_Witness ==
    /\ call_pc = "return"
    /\ Retries = MaxRetries
    /\ Attempts = Retries + 1
    /\ call_err.kind = "kw"

\* The flag bits of err intersect neither internal-server-error nor token-error.
NotRetryable(err) ==
    /\ err.kind = "kw"
    /\ BitAnd(err.flag, ERR_INTERNAL_SERVER_ERROR) = 0
    /\ BitAnd(err.flag, ERR_AUTH_UNAUTHORIZED) = 0
    /\ BitAnd(err.flag, ERR_AUTH_PROFILE_CHANGED) = 0
    /\ BitAnd(err.flag, ERR_INVALID_GRANT) = 0

\* C7: when an attempt fails with a vendor error whose bits intersect neither
\* internal-server-error nor token-error, the next step of Call is its return with
\* that error: no further attempt, reauthentication or backoff is logged and the
\* token store is unchanged; and nothing follows the return.
C7_NonRetryableReturnedAtOnce ==
    [][/\ (call_pc = "afterDo" /\ NotRetryable(call_err)) =>
            /\ call_pc' = "return"
            /\ call_err' = call_err
            /\ call_log' = call_log
            /\ TokenStore' = TokenStore
       /\ (call_pc = "return") => UNCHANGED callVars]_vars

C7_Witness ==
    /\ call_pc = "return"
    /\ call_err = KWError(ERR_ENTITY_EXISTS)
    /\ LastEvent.ev = "attempt"
    /\ LastEvent.arg = 2

\* The six entries before entry k are a whole successful reauthentication: the
\* load, the refresh, the save of the refreshed token, the attach and the backoff.
ReAuthBefore(k) ==
    /\ k > 6
    /\ call_log[k - 6].ev = "attempt"
    /\ call_log[k - 5].ev = "reAuth" /\ call_log[k - 5].arg = 1
    /\ call_log[k - 4].ev = "refresh" /\ call_log[k - 4].arg > 0
    /\ call_log[k - 3].ev = "save" /\ call_log[k - 3].arg = call_log[k - 4].arg
    /\ call_log[k - 2].ev = "attach" /\ call_log[k - 2].arg = 1
    /\ call_log[k - 1].ev = "sleep"

\* C8: with no signature key, every attempt after the first is preceded by a load
\* of the stored token, its refresh, the save of the refreshed token and its
\* re-attachment, all successful and in this order; the save leaves the refreshed
\* token in the token store; a failed load or save ends Call with an ordinary
\* error return.
C8_ReAuthBeforeNextAttempt ==
    /\ ~signature_key =>
         \A k \in AttemptEvents : call_log[k].arg > 1 => ReAuthBefore(k)
    /\ (call_log # <<>> /\ LastEvent.ev = "save" /\ LastEvent.arg > 0) =>
         TokenStore = LastEvent.arg
    /\ (call_log # <<>> /\ (LastEvent = Event("reAuth", -1, NoAnswer)
                            \/ LastEvent = Event("save", 0, NoAnswer))) =>
         (call_pc = "return" /\ call_err = OtherErr("store"))

C8_Witness ==
    /\ ~signature_key
    /\ call_pc = "return"
    /\ call_err = NilErr
    /\ Attempts = 2
    /\ TokenStore = 2

\* A reauthentication of this Call failed: the refresh or the re-attach did not succeed.
ReAuthFailed ==
    \E k \in DOMAIN call_log :
        \/ call_log[k].ev = "refresh" /\ call_log[k].arg = 0
        \/ call_log[k].ev = "attach" /\ call_log[k].arg = 0

\* C9: when the reauthentication fails during Call, the stored token has been
\* deleted from the token store and the operation ends in the fatal condition.
C9_FailedReAuthDeletesToken ==
    (Returned /\ ReAuthFailed) => (call_pc = "fatal" /\ TokenStore = 0)
\* ===================================================== KWSession.Upload
\* var ErrNoUploadID, ErrUploadNoResp
ErrNoUploadID == OtherErr("Upload ID not found.")
ErrUploadNoResp == OtherErr("Unexpected empty resposne from server.")

\* The records a listing may hold; the sizes and counts the server reports need
\* not be consistent with each other.
UploadRecords ==
    [ID : {1, 2}, TotalSize : 0..MaxTotalSize, TotalChunks : 0..MaxTotalChunks,
     UploadedSize : 0..MaxTotalSize, UploadedChunks : 0..MaxTotalChunks]

\* The IDs a chunk answer may carry; 0 is an answer without an id.
ResultIDs == {0, 7}

InitUpload ==
    /\ upload_id \in {0, 1}
    /\ Data \in {<<>>} \cup {<<r>> : r \in UploadRecords}
    /\ upload_record = ZeroRecord
    /\ ChunkSize = 0
    /\ ChunkIndex = 0
    /\ transfered_bytes = 0
    /\ resp_data = 0
    /\ up_pc = "Call"
    /\ up_result = [id |-> 0, err |-> NilErr]
    /\ up_tm = "none"
    /\ up_log = <<>>
    /\ up_answer = -1
    /\ Retries \in 0..MaxRetries
    /\ signature_key = FALSE
    /\ TokenStore = 0
    /\ server = [kind |-> "ok", flag |-> 0]
    /\ resp = [kind |-> "ok", flag |-> 0]
    /\ call_pc = "idle"
    /\ call_i = 0
    /\ call_err = NilErr
    /\ call_token = 0
    /\ call_log = <<>>
    /\ AgentString = NONE
    /\ ChunkIdle
    /\ MonitorIdle
    /\ ErrorIdle
    /\ DownloadIdle
    /\ SnoopIdle
    /\ SharedIdle
    /\ StreamIdle
    /\ RespIdle

UploadFrame ==
    UNCHANGED <<upload_id, Data, callVars, chunkVars, monVars, errVars, dlVars,
                snoopVars, sharedVars,
                streamVars, respVars>>

\* return id, err: the deferred tm.Close() closes the record Upload registered.
Return(id, err) ==
    /\ up_result' = [id |-> id, err |-> err]
    /\ up_pc' = "return"
    /\ up_tm' = IF up_tm = "open" THEN "closed" ELSE up_tm

\* Lines 231-239: fetch the listing through Call.
UploadCall ==
    /\ up_pc = "Call"
    /\ \E call_ok \in BOOLEAN :
        IF call_ok THEN up_pc' = "locate" /\ UNCHANGED <<up_result, up_tm>>
        ELSE Return(-1, OtherErr("call"))
    /\ UNCHANGED <<upload_record, ChunkSize, ChunkIndex, transfered_bytes, resp_data, up_log>>
    /\ UNCHANGED up_answer
    /\ UploadFrame

\* Lines 241-249: the first record of the listing, or the zero record.
Locate ==
    /\ up_pc = "locate"
    /\ LET rec == IF Len(Data) > 0 THEN Data[1] ELSE ZeroRecord IN
        /\ upload_record' = rec
        /\ IF upload_id # rec.ID THEN Return(-1, ErrNoUploadID)
           ELSE up_pc' = "geometry" /\ UNCHANGED <<up_result, up_tm>>
    /\ UNCHANGED <<ChunkSize, ChunkIndex, transfered_bytes, resp_data, up_log>>
    /\ UNCHANGED up_answer
    /\ UploadFrame

\* A mutant of SeekOffset: the source is sought to the bytes the server reports.
SeekOffset_UploadedSize(rec) == rec.UploadedSize

\* Line 258: the offset of source.Seek(ChunkSize*ChunkIndex, 0).
SeekOffset(rec) == (rec.TotalSize \div rec.TotalChunks) * rec.UploadedChunks

\* Lines 251-264: the chunk size and the resume point; a record with no chunks
\* faults in the division.
Geometry ==
    /\ up_pc = "geometry"
    /\ IF upload_record.TotalChunks = 0
       THEN /\ up_pc' = "panic"
            /\ UNCHANGED <<ChunkSize, ChunkIndex, transfered_bytes, up_result, up_log>>
       ELSE /\ ChunkSize' = upload_record.TotalSize \div upload_record.TotalChunks
            /\ ChunkIndex' = upload_record.UploadedChunks
            /\ IF upload_record.UploadedChunks > 0 /\ upload_record.UploadedSize > 0
               THEN \E seek_ok \in BOOLEAN :
                      /\ up_log' = Append(up_log, [ev |-> "seek",
                                                   index |-> 0,
                                                   size |-> SeekOffset(upload_record),
                                                   echo |-> FALSE])
                      /\ IF seek_ok
                         THEN /\ transfered_bytes' = upload_record.UploadedSize
                              /\ up_pc' = "TransferMonitor"
                              /\ UNCHANGED up_result
                         ELSE /\ up_result' = [id |-> -1, err |-> OtherErr("seek")]
                              /\ up_pc' = "return"
                              /\ UNCHANGED transfered_bytes
               ELSE /\ transfered_bytes' = upload_record.UploadedSize
                    /\ up_pc' = "TransferMonitor"
                    /\ UNCHANGED <<up_result, up_log>>
    /\ UNCHANGED <<upload_record, resp_data, up_tm>>
    /\ UNCHANGED up_answer
    /\ UploadFrame

\* Lines 266-275: register the transfer record; its Close is deferred.
RegisterTransfer ==
    /\ up_pc = "TransferMonitor"
    /\ up_tm' = "open"
    /\ up_pc' = "loop"
    /\ UNCHANGED <<upload_record, ChunkSize, ChunkIndex, transfered_bytes, resp_data,
                   up_result, up_log>>
    /\ UNCHANGED up_answer
    /\ UploadFrame

\* A mutant of UploadLoopCond: the loop runs once more when everything is sent.
UploadLoopCond_Inclusive(sent, total_bytes) == sent <= total_bytes \/ total_bytes = 0

\* Line 277: for transfered_bytes < total_bytes || total_bytes == 0
UploadLoopCond(sent, total_bytes) == sent < total_bytes \/ total_bytes = 0

UploadLoop ==
    /\ up_pc = "loop"
    /\ up_pc' = IF UploadLoopCond(transfered_bytes, upload_record.TotalSize)
                THEN "chunk" ELSE "finalize"
    /\ UNCHANGED <<upload_record, ChunkSize, ChunkIndex, transfered_bytes, resp_data,
                   up_result, up_tm, up_log>>
    /\ UNCHANGED up_answer
    /\ UploadFrame

\* A mutant of FieldIndex: the index field is 0-based.
FieldIndex_ZeroBased(index) == index

\* Line 312: the index field, fmt.Sprintf("%d", ChunkIndex+1).
FieldIndex(index) == index + 1

\* Lines 278-346: the request of one chunk; the last chunk asks for the entity and
\* takes the remaining bytes.
Chunk ==
    /\ up_pc = "chunk"
    /\ ChunkIndex < MaxChunkIndex
    /\ \E request_ok \in BOOLEAN :
        IF ~request_ok
        THEN Return(-1, OtherErr("request")) /\ UNCHANGED ChunkSize
        ELSE /\ ChunkSize' = IF ChunkIndex = upload_record.TotalChunks - 1
                             THEN upload_record.TotalSize - transfered_bytes
                             ELSE ChunkSize
             /\ up_pc' = "Do"
             /\ UNCHANGED <<up_result, up_tm>>
    /\ UNCHANGED <<upload_record, ChunkIndex, transfered_bytes, resp_data, up_log>>
    /\ UNCHANGED up_answer
    /\ UploadFrame

\* Lines 348-365: submit the chunk with client.Do (one attempt: a transport
\* failure or respError's *KWError is returned as it is), decode the answer into
\* resp_data (an answer without an id leaves resp_data.ID as it was), advance.
Submit ==
    /\ up_pc = "Do"
    /\ up_log' = Append(up_log, [ev |-> "submit",
                                 index |-> FieldIndex(ChunkIndex),
                                 size |-> ChunkSize,
                                 echo |-> (ChunkIndex = upload_record.TotalChunks - 1)])
    /\ \E answer \in ServerAnswers, id \in ResultIDs :
        /\ up_answer' = IF answer.kind = "ok" THEN id ELSE -1
        /\ IF answer.kind # "ok"
           THEN /\ Return(-1, IF DoErr(answer) # NilErr THEN DoErr(answer)
                              ELSE DecodeErr(answer))
                /\ UNCHANGED <<ChunkIndex, transfered_bytes, resp_data>>
           ELSE /\ resp_data' = IF id # 0 THEN id ELSE resp_data
                /\ ChunkIndex' = ChunkIndex + 1
                /\ transfered_bytes' = transfered_bytes + ChunkSize
                /\ up_pc' = IF upload_record.TotalSize = 0 THEN "finalize" ELSE "loop"
                /\ UNCHANGED <<up_result, up_tm>>
    /\ UNCHANGED <<upload_record, ChunkSize>>
    /\ UploadFrame

\* Lines 368-372.
Finalize ==
    /\ up_pc = "finalize"
    /\ IF resp_data = 0 THEN Return(-1, ErrUploadNoResp)
       ELSE Return(resp_data, NilErr)
    /\ UNCHANGED <<upload_record, ChunkSize, ChunkIndex, transfered_bytes, resp_data, up_log>>
    /\ UNCHANGED up_answer
    /\ UploadFrame

NextUpload ==
    \/ UploadCall \/ Locate \/ Geometry \/ RegisterTransfer \/ UploadLoop
    \/ Chunk \/ Submit \/ Finalize

UploadSpec == InitUpload /\ [][NextUpload]_vars

\* ------------------------------------------------ the claims about Upload
Submissions == {k \in DOMAIN up_log : up_log[k].ev = "submit"}
Seeks == {k \in DOMAIN up_log : up_log[k].ev = "seek"}

\* The listing holds the requested ID, and its record is fully uploaded.
FullyUploaded ==
    /\ Len(Data) > 0
    /\ Data[1].ID = upload_id
    /\ Data[1].TotalChunks >= 1
    /\ Data[1].TotalSize > 0
    /\ Data[1].UploadedSize = Data[1].TotalSize

\* C2: Upload for an upload ID whose server record is fully uploaded (the listing
\* was fetched and the source sought without error) submits no chunk and returns
\* a result ID, not an error.
C2_FullyUploadedReturnsResultID ==
    (up_pc = "return" /\ FullyUploaded /\ up_result.err.kind \notin {"call", "seek"}) =>
        /\ Submissions = {}
        /\ up_result.err = NilErr
        /\ up_result.id > 0

\* C5: with uploadedChunks = k > 0 and uploadedSize > 0 in the server record,
\* Upload seeks the source once, to k * (totalSize / totalChunks), before it
\* submits anything, and the first chunk submitted carries index k + 1; with
\* k = 0 it never seeks and the first chunk carries index 1.
C5_ResumeSeeksThenSendsNextChunk ==
    LET k == upload_record.UploadedChunks IN
    /\ (Submissions # {} /\ k > 0 /\ upload_record.UploadedSize > 0) =>
          /\ Seeks = {1}
          /\ up_log[1].size = k * (upload_record.TotalSize \div upload_record.TotalChunks)
          /\ up_log[2].ev = "submit"
          /\ up_log[2].index = k + 1
    /\ (up_pc # "Call" /\ up_pc # "locate" /\ k = 0) =>
          /\ Seeks = {}
          /\ Submissions # {} => up_log[1].index = 1

C5_Witness ==
    /\ upload_record.UploadedChunks = 2
    /\ upload_record.UploadedSize = 1
    /\ upload_record.TotalSize = 4
    /\ upload_record.TotalChunks = 3
    /\ Len(up_log) = 2
    /\ up_log[1] = [ev |-> "seek", index |-> 0, size |-> 2, echo |-> FALSE]
    /\ up_log[2] = [ev |-> "submit", index |-> 3, size |-> 3, echo |-> TRUE]
\* ============================================ TransferMonitor / TMonitor
\* const trans_active = 1 << iota, trans_closed, trans_complete
trans_active == 1
trans_closed == 2
trans_complete == 4
\* for i := 0; i < 10; i++, the inner loop of the display pass
DisplayRepeats == 10

\* BitFlag.Has, and the values BitFlag.Set and BitFlag.Unset store for a loaded value.
Has(f, bit) == BitAnd(f, bit) # 0
WithBit(f, bit) == BitOr(f, bit)
WithoutBit(f, bit) == f - BitAnd(f, bit)

\* The total sizes of the transfers: unknown (negative) or MaxBytes.
TotalSizesOfTransfers == {-1, MaxBytes}

InitMonitor ==
    /\ MonitorIdle
    /\ CallIdle
    /\ ChunkIdle
    /\ UploadIdle
    /\ ErrorIdle
    /\ DownloadIdle
    /\ SnoopIdle
    /\ SharedIdle
    /\ StreamIdle
    /\ RespIdle

MonitorFrame ==
    UNCHANGED <<callVars, chunkVars, uploadVars, errVars, dlVars, snoopVars, sharedVars,
                streamVars, respVars>>
LoopVars == <<loop_pc, loop_monitors, loop_i, loop_v, loop_n>>
ShowVars == <<sp_pc, sp_rec, sp_tmp>>
ThreadVars == <<t_pc, t_tmp, t_did>>
Outputs == <<logs, loop_logged>>

\* A mutant of SpawnsLoop: every registration starts a background loop.
SpawnsLoop_Always(registry) == TRUE

\* Line 47: if len(transferDisplay.monitors) == 1, the loop is started.
SpawnsLoop(registry) == Len(registry) = 1

\* func TransferMonitor(name, total_sz): under update_lock, make the record, append
\* it, and start the background loop when it is the only record. Records are
\* numbered in the order of their registration.
Register(r) ==
    /\ t_pc[r] = "new"
    /\ \A q \in Records : q < r => t_pc[q] # "new"
    /\ update_lock = "free"
    /\ \E total_sz \in TotalSizesOfTransfers :
        total' = [total EXCEPT ![r] = total_sz]
    /\ flag' = [flag EXCEPT ![r] = trans_active]
    /\ transfered' = [transfered EXCEPT ![r] = 0]
    /\ offset' = [offset EXCEPT ![r] = 0]
    /\ monitors' = Append(monitors, r)
    /\ IF SpawnsLoop(monitors')
       THEN /\ loops' = loops + 1
            /\ loop_pc' = IF loop_pc = "off" THEN "Lock" ELSE loop_pc
       ELSE UNCHANGED <<loops, loop_pc>>
    /\ t_pc' = [t_pc EXCEPT ![r] = "open"]
    /\ UNCHANGED <<update_lock, t_tmp, t_did, loop_monitors, loop_i, loop_v, loop_n,
                   ShowVars, Outputs>>
    /\ MonitorFrame

\* func (t *TMonitor) RecordTransfer, first half: atomic.LoadInt64(&t.transfered).
RecordTransferLoad(r) ==
    /\ t_pc[r] = "open"
    /\ transfered[r] < MaxBytes
    /\ t_tmp' = [t_tmp EXCEPT ![r] = transfered[r]]
    /\ t_pc' = [t_pc EXCEPT ![r] = "RecordTransfer"]
    /\ UNCHANGED <<monitors, update_lock, loops, flag, total, transfered, offset, t_did,
                   LoopVars, ShowVars, Outputs>>
    /\ MonitorFrame

\* RecordTransfer, second half: atomic.StoreInt64(&t.transfered, loaded + current_sz).
RecordTransferStore(r) ==
    /\ t_pc[r] = "RecordTransfer"
    /\ transfered' = [transfered EXCEPT ![r] = t_tmp[r] + 1]
    /\ t_tmp' = [t_tmp EXCEPT ![r] = 0]
    /\ t_pc' = [t_pc EXCEPT ![r] = "open"]
    /\ UNCHANGED <<monitors, update_lock, loops, flag, total, offset, t_did,
                   LoopVars, ShowVars, Outputs>>
    /\ MonitorFrame

\* func (t *TMonitor) Offset, line 128: t.transfered = current_sz.
OffsetTransfered(r) ==
    /\ t_pc[r] = "open"
    /\ ~t_did[r].seek
    /\ \E current_sz \in 0..MaxBytes :
        /\ transfered' = [transfered EXCEPT ![r] = current_sz]
    /\ t_did' = [t_did EXCEPT ![r].seek = TRUE]
    /\ t_pc' = [t_pc EXCEPT ![r] = "Offset"]
    /\ UNCHANGED <<monitors, update_lock, loops, flag, total, offset, t_tmp,
                   LoopVars, ShowVars, Outputs>>
    /\ MonitorFrame

\* Offset, line 129: t.offset = t.transfered.
OffsetOffset(r) ==
    /\ t_pc[r] = "Offset"
    /\ offset' = [offset EXCEPT ![r] = transfered[r]]
    /\ t_pc' = [t_pc EXCEPT ![r] = "open"]
    /\ UNCHANGED <<monitors, update_lock, loops, flag, total, transfered, t_tmp, t_did,
                   LoopVars, ShowVars, Outputs>>
    /\ MonitorFrame

\* func (tm *TMonitor) Close, lines 95-98: return when closed, else showTransfer(true).
\* A thread may call Close a second time after the first has returned.
CloseBegin(r) ==
    /\ \/ t_pc[r] = "open" /\ UNCHANGED t_did
       \/ /\ t_pc[r] = "closed"
          /\ ~t_did[r].reclose
          /\ t_did' = [t_did EXCEPT ![r].reclose = TRUE]
    /\ IF Has(flag[r], trans_closed)
       THEN /\ t_pc' = [t_pc EXCEPT ![r] = "closed"]
            /\ UNCHANGED ShowVars
       ELSE /\ t_pc' = [t_pc EXCEPT ![r] = "showTransfer"]
            /\ sp_pc' = [sp_pc EXCEPT ![r] = "showRate"]
            /\ sp_rec' = [sp_rec EXCEPT ![r] = r]
            /\ UNCHANGED sp_tmp
    /\ UNCHANGED <<monitors, update_lock, loops, flag, total, transfered, offset, t_tmp,
                   LoopVars, Outputs>>
    /\ MonitorFrame

\* Close, line 99, first half of tm.flag.Set(trans_closed): the load.
CloseSetLoad(r) ==
    /\ t_pc[r] = "showTransfer"
    /\ sp_pc[r] = "ret"
    /\ t_tmp' = [t_tmp EXCEPT ![r] = flag[r]]
    /\ t_pc' = [t_pc EXCEPT ![r] = "Set"]
    /\ UNCHANGED <<monitors, update_lock, loops, flag, total, transfered, offset, t_did,
                   LoopVars, ShowVars, Outputs>>
    /\ MonitorFrame

\* Close, line 99, second half of tm.flag.Set(trans_closed): the store.
CloseSetStore(r) ==
    /\ t_pc[r] = "Set"
    /\ flag' = [flag EXCEPT ![r] = WithBit(t_tmp[r], trans_closed)]
    /\ t_tmp' = [t_tmp EXCEPT ![r] = 0]
    /\ t_pc' = [t_pc EXCEPT ![r] = "closed"]
    /\ UNCHANGED <<monitors, update_lock, loops, total, transfered, offset, t_did,
                   LoopVars, ShowVars, Outputs>>
    /\ MonitorFrame

\* ---- showTransfer(log) and showRate, run by process p: thread p with log = true,
\* or the background loop (p = 0) with log = false.
ShowFrame ==
    /\ UNCHANGED <<monitors, update_lock, loops, total, transfered, offset,
                   ThreadVars, LoopVars, sp_rec>>
    /\ MonitorFrame

\* showRate, lines 154-157 (the load of transfered; the rate is kept when it is 0).
RateLoadTransfered(p) ==
    /\ sp_pc[p] = "showRate"
    /\ sp_pc' = [sp_pc EXCEPT ![p] = IF transfered[sp_rec[p]] = 0 THEN "output"
                                     ELSE "hasComplete"]
    /\ UNCHANGED <<flag, sp_tmp, Outputs>>
    /\ ShowFrame

\* showRate, lines 155-157: t.flag.Has(trans_complete) keeps the rate.
RateHasComplete(p) ==
    /\ sp_pc[p] = "hasComplete"
    /\ sp_pc' = [sp_pc EXCEPT ![p] = IF Has(flag[sp_rec[p]], trans_complete) THEN "output"
                                     ELSE "notComplete"]
    /\ UNCHANGED <<flag, sp_tmp, Outputs>>
    /\ ShowFrame

\* showRate, lines 159-186: the rate, then !t.flag.Has(trans_complete).
RateNotComplete(p) ==
    /\ sp_pc[p] = "notComplete"
    /\ sp_pc' = [sp_pc EXCEPT ![p] = IF ~Has(flag[sp_rec[p]], trans_complete) THEN "isTotal"
                                     ELSE "output"]
    /\ UNCHANGED <<flag, sp_tmp, Outputs>>
    /\ ShowFrame

\* showRate, line 186: atomic.LoadInt64(&t.transfered)+t.offset == t.total_size.
IsComplete(r) == transfered[r] + offset[r] = total[r]

RateIsTotal(p) ==
    /\ sp_pc[p] = "isTotal"
    /\ sp_pc' = [sp_pc EXCEPT ![p] = IF IsComplete(sp_rec[p]) THEN "setComplete"
                                     ELSE "output"]
    /\ UNCHANGED <<flag, sp_tmp, Outputs>>
    /\ ShowFrame

\* showRate, line 187, first half of t.flag.Set(trans_complete): the load.
RateSetLoad(p) ==
    /\ sp_pc[p] = "setComplete"
    /\ sp_tmp' = [sp_tmp EXCEPT ![p] = flag[sp_rec[p]]]
    /\ sp_pc' = [sp_pc EXCEPT ![p] = "storeComplete"]
    /\ UNCHANGED <<flag, Outputs>>
    /\ ShowFrame

\* showRate, line 187, second half of t.flag.Set(trans_complete): the store.
RateSetStore(p) ==
    /\ sp_pc[p] = "storeComplete"
    /\ flag' = [flag EXCEPT ![sp_rec[p]] = WithBit(sp_tmp[p], trans_complete)]
    /\ sp_pc' = [sp_pc EXCEPT ![p] = "output"]
    /\ sp_tmp' = [sp_tmp EXCEPT ![p] = 0]
    /\ UNCHANGED Outputs
    /\ ShowFrame

\* showTransfer, lines 137-148: with a known total and log unset, the ephemeral
\* line (Flash) and nothing else; otherwise on to Unset and Log.
ShowOutput(p) ==
    /\ sp_pc[p] = "output"
    /\ sp_pc' = [sp_pc EXCEPT ![p] = IF total[sp_rec[p]] > -1 /\ p = 0 THEN "ret"
                                     ELSE "Unset"]
    /\ UNCHANGED <<flag, sp_tmp, Outputs>>
    /\ ShowFrame

\* showTransfer, lines 142 and 146, first half of t.flag.Unset(trans_active): the load.
ShowUnsetLoad(p) ==
    /\ sp_pc[p] = "Unset"
    /\ sp_tmp' = [sp_tmp EXCEPT ![p] = flag[sp_rec[p]]]
    /\ sp_pc' = [sp_pc EXCEPT ![p] = "storeUnset"]
    /\ UNCHANGED <<flag, Outputs>>
    /\ ShowFrame

\* showTransfer, lines 142-143 and 146-147: the store of Unset, then the Log line.
ShowUnsetStoreLog(p) ==
    /\ sp_pc[p] = "storeUnset"
    /\ LET r == sp_rec[p] IN
        /\ flag' = [flag EXCEPT ![r] = WithoutBit(sp_tmp[p], trans_active)]
        /\ logs' = [logs EXCEPT ![r] = IF @ < 2 THEN @ + 1 ELSE @]
        /\ loop_logged' = [loop_logged EXCEPT ![r] = @ \/ p = 0]
    /\ sp_pc' = [sp_pc EXCEPT ![p] = "ret"]
    /\ sp_tmp' = [sp_tmp EXCEPT ![p] = 0]
    /\ ShowFrame

\* ---- the background loop, the goroutine of lines 51-86
LoopFrame ==
    /\ UNCHANGED <<total, transfered, offset, ThreadVars, Outputs>>
    /\ MonitorFrame

\* Line 54: transferDisplay.update_lock.Lock().
LoopLock ==
    /\ loop_pc = "Lock"
    /\ update_lock = "free"
    /\ update_lock' = "loop"
    /\ loop_monitors' = <<>>
    /\ loop_i' = Len(monitors)
    /\ loop_pc' = "cleanup"
    /\ UNCHANGED <<monitors, loops, flag, loop_v, loop_n, ShowVars>>
    /\ LoopFrame

\* A mutant of RemoveAt: the records after the i-th are dropped with it.
RemoveAt_Truncate(seq, i_) == SubSeq(seq, 1, i_ - 1)

\* The registry without its i-th record: append(monitors[:i], monitors[i+1:]...).
RemoveAt(seq, i_) == SubSeq(seq, 1, i_ - 1) \o SubSeq(seq, i_ + 1, Len(seq))

\* Lines 59-65: one pass of the cleanup loop, from the last record down.
Cleanup ==
    /\ loop_pc = "cleanup"
    /\ loop_i >= 1
    /\ IF Has(flag[monitors[loop_i]], trans_closed)
       THEN /\ monitors' = RemoveAt(monitors, loop_i)
            /\ UNCHANGED loop_monitors
       ELSE /\ loop_monitors' = Append(loop_monitors, monitors[loop_i])
            /\ UNCHANGED monitors
    /\ loop_i' = loop_i - 1
    /\ UNCHANGED <<update_lock, loops, flag, loop_pc, loop_v, loop_n, ShowVars>>
    /\ LoopFrame

\* Lines 67-72: return (the deferred Unlock) when the registry is empty, else Unlock.
CleanupDone ==
    /\ loop_pc = "cleanup"
    /\ loop_i = 0
    /\ update_lock' = "free"
    /\ IF Len(monitors) = 0
       THEN /\ loop_pc' = "off"
            /\ loops' = loops - 1
            /\ loop_monitors' = <<>>
            /\ UNCHANGED <<loop_v, loop_n>>
       ELSE /\ loop_pc' = "display"
            /\ loop_v' = 1
            /\ loop_n' = 0
            /\ UNCHANGED <<loops, loop_monitors>>
    /\ UNCHANGED <<monitors, flag, loop_i, ShowVars>>
    /\ LoopFrame

\* Lines 75-81: the next record of the display pass, or i < 10 and Has(trans_active)
\* and so showTransfer(false), or the break.
Display ==
    /\ loop_pc = "display"
    /\ IF loop_v > Len(loop_monitors)
       THEN /\ loop_pc' = "Lock"
            /\ UNCHANGED <<loop_v, loop_n, ShowVars>>
       ELSE IF loop_n < DisplayRepeats /\ Has(flag[loop_monitors[loop_v]], trans_active)
       THEN /\ loop_pc' = "showTransfer"
            /\ sp_pc' = [sp_pc EXCEPT ![0] = "showRate"]
            /\ sp_rec' = [sp_rec EXCEPT ![0] = loop_monitors[loop_v]]
            /\ UNCHANGED <<loop_v, loop_n, sp_tmp>>
       ELSE /\ loop_v' = loop_v + 1
            /\ loop_n' = 0
            /\ UNCHANGED <<loop_pc, ShowVars>>
    /\ UNCHANGED <<monitors, update_lock, loops, flag, loop_monitors, loop_i>>
    /\ LoopFrame

\* Line 82: time.Sleep(time.Millisecond * 200), and i++.
LoopSleep ==
    /\ loop_pc = "showTransfer"
    /\ sp_pc[0] = "ret"
    /\ loop_n' = loop_n + 1
    /\ loop_pc' = "display"
    /\ UNCHANGED <<monitors, update_lock, loops, flag, loop_monitors, loop_i, loop_v,
                   ShowVars>>
    /\ LoopFrame

ShowNext(p) ==
    \/ RateLoadTransfered(p) \/ RateHasComplete(p)
    \/ RateNotComplete(p) \/ RateIsTotal(p) \/ RateSetLoad(p) \/ RateSetStore(p)
    \/ ShowOutput(p) \/ ShowUnsetLoad(p) \/ ShowUnsetStoreLog(p)

LoopNext ==
    \/ LoopLock \/ Cleanup \/ CleanupDone \/ Display \/ LoopSleep \/ ShowNext(0)

ThreadNext(r) ==
    \/ Register(r) \/ RecordTransferLoad(r) \/ RecordTransferStore(r)
    \/ OffsetTransfered(r) \/ OffsetOffset(r)
    \/ CloseBegin(r) \/ CloseSetLoad(r) \/ CloseSetStore(r) \/ ShowNext(r)

NextMonitor == LoopNext \/ \E r \in Records : ThreadNext(r)

MonitorSpec == InitMonitor /\ [][NextMonitor]_vars

\* The goroutine of the loop runs whenever it can: it is never starved for ever.
MonitorFairSpec == MonitorSpec /\ WF_vars(LoopNext)

\* ------------------------------------- the claims about the transfer monitor
\* Every transfer has been registered and its Close has returned.
AllClosed == \A r \in Records : t_pc[r] = "closed"
\* The registry is empty and no background loop runs.
LoopTerminated == monitors = <<>> /\ loops = 0

\* C10: once every registered transfer has been closed and no further transfer is
\* registered, the registry eventually becomes empty and the background loop
\* terminates.
C10_ClosedTransfersEndTheLoop == AllClosed ~> LoopTerminated

\* C11: over any sequence of Read (RecordTransfer) and Seek (Offset) operations on
\* a record's stream wrapper, the record's transferred counter never decreases.
C11_TransferedNeverDecreases ==
    [][\A r \in Records : transfered'[r] >= transfered[r]]_vars

\* C12: BitFlag is atomic, so the closed bit set by TMonitor.Close is never lost:
\* once Close has returned, the record's flag has trans_closed, whatever the
\* background loop does to the complete and active bits meanwhile.
C12_ClosedBitNeverLost ==
    \A r \in Records : t_pc[r] = "closed" => Has(flag[r], trans_closed)

\* ==================================================== KWError.AddError
\* kw_api_error.go, lines 17-30: the other flags of the iota block.
ERR_ACCESS_USER == 4
ERR_ENTITY_DELETED_PERMANENTLY == 16
ERR_ENTITY_NOT_FOUND == 32
ERR_ENTITY_DELETED == 64
ERR_ENTITY_PARENT_FOLDER_DELETED == 128
ERR_REQUEST_METHOD_NOT_ALLOWED == 256
ERR_ENTITY_ROLE_IS_ASSIGNED == 2048
UNAVAILABLE == 4096
SERVICE_UNAVAILABLE == 8192
ERR_ENTITY_NOT_SCANNED == 16384
ERR_ENTITY_PARENT_FOLDER_MEMBER_EXISTS == 32768

\* A code string: the word it spells when letter case is ignored, and how its
\* letters are written. Two strings are equal when both agree.
Str(word, casing) == [word |-> word, casing |-> casing]
Casings == {"upper", "lower", "mixed"}

\* strings.ToUpper: the same word, every letter in upper case.
ToUpper(code) == Str(code.word, "upper")

\* The cases of the switch in AddError, in order: the literal as it is written in
\* the source, and the flag its branch sets.
Table ==
    << <<Str("ERR_ENTITY_PARENT_FOLDER_MEMBER_EXISTS", "upper"),
         ERR_ENTITY_PARENT_FOLDER_MEMBER_EXISTS>>,
       <<Str("ERR_ENTITY_NOT_SCANNED", "upper"), ERR_ENTITY_NOT_SCANNED>>,
       <<Str("ERR_ENTITY_ROLE_IS_ASSIGNED", "upper"), ERR_ENTITY_ROLE_IS_ASSIGNED>>,
       <<Str("ERR_ENTITY_EXISTS", "upper"), ERR_ENTITY_EXISTS>>,
       <<Str("ERR_AUTH_UNAUTHORIZED", "upper"), ERR_AUTH_UNAUTHORIZED>>,
       <<Str("UNAUTHORIZED_CLIENT", "lower"), ERR_AUTH_UNAUTHORIZED>>,
       <<Str("ERR_AUTH_PROFILE_CHANGED", "upper"), ERR_AUTH_PROFILE_CHANGED>>,
       <<Str("ERR_ACCESS_USER", "upper"), ERR_ACCESS_USER>>,
       <<Str("INVALID_GRANT", "upper"), ERR_INVALID_GRANT>>,
       <<Str("ERR_ENTITY_DELETED_PERMANENTLY", "upper"), ERR_ENTITY_DELETED_PERMANENTLY>>,
       <<Str("ERR_ENTITY_DELETED", "upper"), ERR_ENTITY_DELETED>>,
       <<Str("ERR_ENTITY_NOT_FOUND", "upper"), ERR_ENTITY_NOT_FOUND>>,
       <<Str("ERR_ENTITY_PARENT_FOLDER_DELETED", "upper"),
         ERR_ENTITY_PARENT_FOLDER_DELETED>>,
       <<Str("ERR_REQUEST_METHOD_NOT_ALLOWED", "upper"), ERR_REQUEST_METHOD_NOT_ALLOWED>>,
       <<Str("UNAVAILABLE", "upper"), UNAVAILABLE>> >>

\* A mutant of ContainsInternal: only the server error's own code is recognised.
ContainsInternal_Exact(code) ==
    /\ code.casing = "upper"
    /\ code.word = "ERR_INTERNAL_SERVER_ERROR"

\* strings.Contains(code, "ERR_INTERNAL_"), for the words the model passes.
ContainsInternal(code) ==
    /\ code.casing = "upper"
    /\ code.word \in {"ERR_INTERNAL_SERVER_ERROR", "ERR_INTERNAL_DB_ERROR"}

\* A mutant of AddErrorFlag: the branch assigns its bit instead of or-ing it in.
AddErrorFlag_Assign(e_flag, code) ==
    LET upper == ToUpper(code)
        hits == {k \in DOMAIN Table : Table[k][1] = upper}
    IN  IF hits # {}
        THEN Table[CHOOSE k \in hits : \A h \in hits : k <= h][2]
        ELSE IF ContainsInternal(upper)
        THEN ERR_INTERNAL_SERVER_ERROR
        ELSE e_flag

\* func (e *KWError) AddError(code, message string): the flag after the call.
AddErrorFlag(e_flag, code) ==
    LET upper == ToUpper(code)
        hits == {k \in DOMAIN Table : Table[k][1] = upper}
    IN  IF hits # {}
        THEN BitOr(e_flag, Table[CHOOSE k \in hits : \A h \in hits : k <= h][2])
        ELSE IF ContainsInternal(upper)
        THEN BitOr(e_flag, ERR_INTERNAL_SERVER_ERROR)
        ELSE e_flag

\* The codes a response may carry: the words of the table, two internal errors, a
\* flag without a case (SERVICE_UNAVAILABLE) and an unknown word, in any casing.
TableWords == {Table[k][1].word : k \in DOMAIN Table}
Codes ==
    {Str(w, c) : w \in TableWords \cup {"ERR_INTERNAL_SERVER_ERROR",
                                       "ERR_INTERNAL_DB_ERROR",
                                       "SERVICE_UNAVAILABLE",
                                       "ERR_UNKNOWN"},
                 c \in Casings}

\* The error value handed to KWAPIError: NewKWError(), or an error of another type.
InitError ==
    /\ err_e \in {KWError(0), OtherErr("transport")}
    /\ err_codes = <<>>
    /\ CallIdle
    /\ ChunkIdle
    /\ UploadIdle
    /\ MonitorIdle
    /\ DownloadIdle
    /\ SnoopIdle
    /\ SharedIdle
    /\ StreamIdle
    /\ RespIdle

ErrorFrame ==
    UNCHANGED <<callVars, chunkVars, uploadVars, monVars, dlVars, snoopVars, sharedVars,
                streamVars, respVars>>

\* e.AddError(v.Code, v.Message), as respError calls it for each error of a body.
AddError ==
    /\ err_e.kind = "kw"
    /\ Len(err_codes) < MaxErrors
    /\ \E code \in Codes :
        /\ err_e' = KWError(AddErrorFlag(err_e.flag, code))
        /\ err_codes' = Append(err_codes, code)
    /\ ErrorFrame

NextError == AddError

ErrorSpec == InitError /\ [][NextError]_vars

\* ------------------------------------- the claims about error classification
\* The flag of the table's branch for a word.
CategoryBit(word) == Table[CHOOSE k \in DOMAIN Table : Table[k][1].word = word][2]

\* C13: every code of the fixed table, written in any letter case, sets its
\* category bit when passed to AddError; unauthorized_client in particular sets
\* a bit that intersects the token-error mask.
C13_TableCodesSetTheirBitInAnyCase ==
    \A k \in DOMAIN err_codes :
        err_codes[k].word \in TableWords =>
            /\ BitAnd(err_e.flag, CategoryBit(err_codes[k].word)) # 0
            /\ err_codes[k].word = "UNAUTHORIZED_CLIENT" => KWAPIError(err_e, TOKEN_ERR)

\* The bits of a flag word, as a set of positions.
Bits(n) == {i \in 0..15 : (n \div (2 ^ i)) % 2 = 1}
Masks == {0, TOKEN_ERR, ERR_ENTITY_EXISTS, RetryMask, 65535}
TokenWords == {"ERR_AUTH_UNAUTHORIZED", "ERR_AUTH_PROFILE_CHANGED", "INVALID_GRANT"}

\* C14: KWAPIError(err, mask) is true exactly when err is a vendor error whose
\* bits intersect mask: true for the token-error mask when the error was built
\* from ERR_AUTH_UNAUTHORIZED, ERR_AUTH_PROFILE_CHANGED or INVALID_GRANT, false
\* for it when built only from ERR_ENTITY_EXISTS, false for every mask when the
\* error is not a vendor error.
C14_KWAPIErrorIsMaskIntersection ==
    /\ \A mask \in Masks :
        KWAPIError(err_e, mask) <=>
            (err_e.kind = "kw" /\ Bits(err_e.flag) \cap Bits(mask) # {})
    /\ (\E k \in DOMAIN err_codes : err_codes[k].word \in TokenWords) =>
            KWAPIError(err_e, TOKEN_ERR)
    /\ (err_codes # <<>> /\ \A k \in DOMAIN err_codes :
                                err_codes[k].word = "ERR_ENTITY_EXISTS") =>
            ~KWAPIError(err_e, TOKEN_ERR)
    /\ err_e.kind # "kw" => \A mask \in Masks : ~KWAPIError(err_e, mask)

C14_Witness ==
    /\ err_codes = <<Str("ERR_ENTITY_EXISTS", "upper"), Str("INVALID_GRANT", "lower")>>
    /\ err_e = KWError(1032)
    /\ KWAPIError(err_e, TOKEN_ERR)
    /\ ~KWAPIError(err_e, ERR_INTERNAL_SERVER_ERROR)

\* ------------------------------------ further claims about Upload
\* The listing was fetched, and it holds no record with the requested ID.
IDAbsent ==
    /\ up_pc \notin {"Call", "locate"}
    /\ up_result.err # OtherErr("call")
    /\ \A k \in DOMAIN Data : Data[k].ID # upload_id

\* C15: for every requested upload ID and every listing, the empty one included, a
\* listing without a record of the requested ID makes Upload fail with
\* ErrNoUploadID, with no chunk submitted and no transfer record registered.
C15_AbsentIDFailsWithErrNoUploadID ==
    IDAbsent =>
        /\ up_pc = "return"
        /\ up_result = [id |-> -1, err |-> ErrNoUploadID]
        /\ Submissions = {}
        /\ up_tm = "none"

\* C16: Upload returns a result ID only if the answer to the last chunk it
\* submitted carried a non-zero ID, and that ID is the one returned; when that
\* answer carried no ID, Upload fails with ErrUploadNoResp, whatever earlier
\* answers carried.
C16_ResultIDComesFromLastAnswer ==
    up_pc = "return" =>
        /\ up_result.err = NilErr => (up_answer > 0 /\ up_result.id = up_answer)
        /\ (up_answer = 0 /\ up_result.err # OtherErr("request")) =>
              up_result = [id |-> -1, err |-> ErrUploadNoResp]

\* ======================================================= web_downloader
\* const wd_started = 1 << iota
wd_started == 1

\* strconv.FormatInt(n, 10) for n >= 0: the decimal digits, most significant first.
RECURSIVE FormatInt(_)
FormatInt(n) == IF n < 10 THEN <<n>> ELSE FormatInt(n \div 10) \o <<n % 10>>

\* What lines 77-79 see of the Content-Range header: NoRange when the header is
\* absent or holds no "-" (len(content_range) <= 1), else the trimmed text before
\* the first "-", a sequence of digits; "01" is a start the server pads.
NoRange == <<>>
ContentRanges == {NoRange} \cup {FormatInt(k) : k \in 0..MaxOffset} \cup {<<0, 1>>}

\* The status codes of the answers.
Statuses == {200, 206, 404}

\* What W.client.Do(W.req) gives: a transport error, or a response with its
\* status, Content-Range and body length.
DownloadAnswers ==
    [kind : {"transport"}, status : {0}, content_range : {NoRange}, body : {0}]
    \cup [kind : {"response"}, status : Statuses, content_range : ContentRanges,
          body : 0..MaxBody]

\* Lines 76-83: the resumed download whose answer starts elsewhere.
RangeMismatch(offset_, content_range) ==
    /\ offset_ > 0
    /\ content_range # NoRange
    /\ content_range # FormatInt(offset_)

\* Lines 87-91, n, err = W.resp.Body.Read(p) and the deferred Close on an error:
\* the outcomes for a body with that many bytes left.
BodyRead(body, closed) ==
    IF closed
    THEN {[n |-> 0, err |-> OtherErr("closed"), body |-> body, closed |-> TRUE]}
    ELSE IF body = 0
    THEN {[n |-> 0, err |-> OtherErr("EOF"), body |-> 0, closed |-> TRUE]}
    ELSE {[n |-> k, err |-> NilErr, body |-> body - k, closed |-> FALSE] : k \in 1..body}
         \cup {[n |-> 0, err |-> OtherErr("timeout"), body |-> body, closed |-> TRUE]}

InitDownload ==
    /\ DownloadIdle
    /\ SnoopIdle
    /\ SharedIdle
    /\ StreamIdle
    /\ RespIdle
    /\ CallIdle
    /\ ChunkIdle
    /\ UploadIdle
    /\ MonitorIdle
    /\ ErrorIdle

DownloadFrame ==
    UNCHANGED <<callVars, chunkVars, uploadVars, monVars, errVars, snoopVars, sharedVars,
                streamVars, respVars>>

\* Read returns without touching the body.
Fail(kind) ==
    /\ wd_last' = [n |-> 0, err |-> OtherErr(kind)]
    /\ UNCHANGED <<wd_closed, wd_delivered>>

\* Read returns what the body read gave.
Deliver(out) ==
    /\ wd_last' = [n |-> out.n, err |-> out.err]
    /\ wd_body' = out.body
    /\ wd_closed' = out.closed
    /\ wd_delivered' = wd_delivered + out.n

\* func (W *web_downloader) Read(p []byte) (n int, err error)
Read ==
    /\ wd_pc = "ready"
    /\ wd_reads < MaxReads
    /\ wd_reads' = wd_reads + 1
    /\ IF ~Has(wd_flag, wd_started)
       THEN /\ wd_flag' = WithBit(wd_flag, wd_started)
            /\ wd_gets' = wd_gets + 1
            /\ wd_get_range' = wd_range
            /\ UNCHANGED wd_pc
            /\ \E answer \in DownloadAnswers :
                IF answer.kind = "transport"
                THEN /\ wd_resp' = NilResp
                     /\ Fail("transport")
                     /\ UNCHANGED wd_body
                ELSE /\ wd_resp' = [status |-> answer.status,
                                    content_range |-> answer.content_range]
                     /\ IF answer.status < 200 \/ answer.status >= 300
                        THEN Fail("status") /\ wd_body' = answer.body
                        ELSE IF RangeMismatch(wd_offset, answer.content_range)
                        THEN Fail("range") /\ wd_body' = answer.body
                        ELSE \E out \in BodyRead(answer.body, FALSE) : Deliver(out)
       ELSE IF wd_resp = NilResp
       THEN /\ wd_pc' = "panic"
            /\ UNCHANGED <<wd_flag, wd_resp, wd_body, wd_closed, wd_last, wd_gets,
                           wd_get_range, wd_delivered>>
       ELSE /\ \E out \in BodyRead(wd_body, wd_closed) : Deliver(out)
            /\ UNCHANGED <<wd_flag, wd_resp, wd_pc, wd_gets, wd_get_range>>
    /\ UNCHANGED <<wd_range, wd_offset, wd_seeks, wd_sought>>
    /\ DownloadFrame

\* A mutant of SeekRange: the Range header is left as it was.
SeekRange_Stale(range, offset_) == range

\* Seek, line 98: W.req.Header.Set("Range", fmt.Sprintf("bytes=%d-", offset)).
SeekRange(range, offset_) == offset_

\* func (W *web_downloader) Seek(offset int64, whence int) (int64, error)
Seek ==
    /\ wd_pc = "ready"
    /\ wd_seeks < MaxSeeks
    /\ wd_seeks' = wd_seeks + 1
    /\ \E offset_ \in -1..MaxOffset :
        IF offset_ < 0
        THEN UNCHANGED <<wd_range, wd_offset, wd_sought>>
        ELSE /\ wd_range' = SeekRange(wd_range, offset_)
             /\ wd_offset' = offset_
             /\ wd_sought' = offset_
    /\ UNCHANGED <<wd_flag, wd_resp, wd_body, wd_closed, wd_pc, wd_last, wd_reads,
                   wd_gets, wd_get_range, wd_delivered>>
    /\ DownloadFrame

NextDownload == Read \/ Seek

DownloadSpec == InitDownload /\ [][NextDownload]_vars

\* ------------------------------------ the claims about the downloader
\* The GET was answered with a status outside 2xx.
Rejected ==
    /\ wd_gets > 0
    /\ wd_resp # NilResp
    /\ (wd_resp.status < 200 \/ wd_resp.status >= 300)

\* C17: when the download response is non-2xx, the first Read and every later
\* Read return an error, and no Read delivers bytes of that response's body.
C17_NonSuccessResponseNeverRead ==
    Rejected => (wd_last.err # NilErr /\ wd_delivered = 0)

\* The number a text of digits spells.
RECURSIVE TextValue(_)
TextValue(text) ==
    IF text = <<>> THEN 0
    ELSE 10 * TextValue(SubSeq(text, 1, Len(text) - 1)) + text[Len(text)]

\* C18: when the download is resumed from a non-zero offset, Read delivers body
\* bytes only if the server returned a content-range whose start equals the
\* requested offset; with another start, or with no content-range, it fails.
C18_ResumeDeliversOnlyFromRequestedOffset ==
    (wd_get_range > 0 /\ wd_delivered > 0) =>
        /\ wd_resp.content_range # NoRange
        /\ TextValue(wd_resp.content_range) = wd_get_range

\* C19: no GET is issued before the first Read; a Seek before the first Read
\* changes only the pending offset and the Range header (both to the offset
\* sought, or nothing when the offset is refused); the GET is issued at most
\* once, and it carries the offset of the latest accepted Seek before it (no
\* Range header when there was none).
C19_GetDeferredToFirstReadOnce ==
    [][ /\ (wd_reads' = 0 => wd_gets' = 0)
        /\ wd_gets' <= 1
        /\ (wd_seeks' # wd_seeks /\ wd_reads = 0) =>
              /\ UNCHANGED <<wd_flag, wd_resp, wd_body, wd_closed, wd_pc, wd_last,
                             wd_reads, wd_gets, wd_get_range, wd_delivered>>
              /\ wd_range' = wd_sought'
              /\ wd_offset' = IF wd_sought' = NoHeader THEN 0 ELSE wd_sought'
        /\ wd_gets' # wd_gets => wd_get_range' = wd_sought
      ]_vars

C19_Witness ==
    /\ wd_seeks = 2
    /\ wd_reads = 3
    /\ wd_gets = 1
    /\ wd_sought = 2
    /\ wd_get_range = 2
    /\ wd_delivered = 2

\* ------------------------------- the claim about the session configuration
\* C20: building and executing requests never modifies a field of the shared
\* session configuration, whatever the configuration; an empty agent string
\* included.
C20_ConfigurationNeverModified ==
    [][AgentString' = AgentString /\ Retries' = Retries]_vars

\* ------------------------------- further claims about the transfer monitor
\* C29: for each transfer record the persistent log line is emitted exactly once,
\* by Close; the background loop never emits a persistent line, and a repeated
\* Close emits nothing further; for every total size, the unknown one included.
C29_PersistentLineOnceAtClose ==
    \A r \in Records :
        /\ ~loop_logged[r]
        /\ logs[r] <= 1
        /\ t_pc[r] = "closed" => logs[r] = 1

\* ------------------------------------------- further claims about Upload
\* Upload has declared its counters (line 264 onwards) and has not returned.
Counting == up_pc \in {"TransferMonitor", "loop", "chunk", "Do", "finalize"}

\* C24: for every server upload record, throughout Upload the chunk index and the
\* transferred-byte count never decrease, and the transferred-byte count never
\* exceeds the total size. (Stated for the records whose uploadedSize does not
\* itself exceed totalSize, so that only Upload's own steps can break it.)
C24_CountersMonotoneAndBounded ==
    [][(Counting /\ upload_record.UploadedSize <= upload_record.TotalSize) =>
        /\ ChunkIndex' >= ChunkIndex
        /\ transfered_bytes' >= transfered_bytes
        /\ transfered_bytes' <= upload_record.TotalSize]_vars

\* The chunk submissions of the run, in order.
IsSubmit(entry) == entry.ev = "submit"
Submitted == SelectSeq(up_log, IsSubmit)

RECURSIVE SizeSum(_, _)
SizeSum(subs, n) == IF n = 0 THEN 0 ELSE subs[n].size + SizeSum(subs, n - 1)

\* C27: in every Upload run the echo query (returnEntity=true, mode=full) is
\* attached to the submission whose index equals totalChunks and to no other; that
\* submission declares the size total - transferred, and every earlier one
\* declares totalSize / totalChunks.
C27_EchoOnLastIndexWithRemainder ==
    \A k \in DOMAIN Submitted :
        /\ Submitted[k].echo <=> Submitted[k].index = upload_record.TotalChunks
        /\ Submitted[k].echo =>
             Submitted[k].size = upload_record.TotalSize
                                 - (upload_record.UploadedSize + SizeSum(Submitted, k - 1))
        /\ Submitted[k].index < upload_record.TotalChunks =>
             Submitted[k].size = upload_record.TotalSize \div upload_record.TotalChunks

\* A run that sent a plain chunk and then the echoed one, whose remainder differs
\* from the plain chunk size, and ended without error.
C27_Witness ==
    /\ up_pc = "return"
    /\ up_result.err = NilErr
    /\ Len(Submitted) = 2
    /\ ~Submitted[1].echo
    /\ Submitted[2].echo
    /\ Submitted[2].size # Submitted[1].size

\* The server record is consistent for the chunk size c, and Upload ran to its end
\* against a server that accepted every chunk.
ConsistentFor(c) ==
    /\ upload_record.TotalSize = c * upload_record.TotalChunks
    /\ upload_record.UploadedSize = c * upload_record.UploadedChunks
    /\ upload_record.UploadedChunks < upload_record.TotalChunks

AllAccepted ==
    /\ up_pc = "return"
    /\ upload_record.ID = upload_id
    /\ up_result.err \in {NilErr, ErrUploadNoResp}

\* Exactly totalChunks - uploadedChunks submissions, with the indices
\* uploadedChunks+1 .. totalChunks in increasing order, each once, whose declared
\* sizes sum to totalSize - uploadedSize.
SubmitsTheRemainingChunks ==
    /\ Len(Submitted) = upload_record.TotalChunks - upload_record.UploadedChunks
    /\ \A k \in DOMAIN Submitted :
           Submitted[k].index = upload_record.UploadedChunks + k
    /\ SizeSum(Submitted, Len(Submitted))
           = upload_record.TotalSize - upload_record.UploadedSize

\* C26 as stated: for a consistent server record (totalSize = c * totalChunks,
\* uploadedSize = c * uploadedChunks, uploadedChunks < totalChunks, any c) and a
\* server that accepts every chunk, Upload submits exactly the remaining chunks.
C26_AsStated ==
    (AllAccepted /\ \E c \in 0..MaxTotalSize : ConsistentFor(c))
        => SubmitsTheRemainingChunks

\* C26: for a consistent server record with a chunk size c >= 1 and a server that
\* accepts every chunk, Upload submits exactly totalChunks - uploadedChunks chunks,
\* with indices uploadedChunks+1 .. totalChunks in increasing order, each once,
\* whose declared sizes sum to totalSize - uploadedSize.
C26_ConsistentRecordSendsRemainingChunks ==
    (AllAccepted /\ \E c \in 1..MaxTotalSize : ConsistentFor(c))
        => SubmitsTheRemainingChunks

\* A resumed upload of a consistent three-chunk record ran to its end.
C26_Witness ==
    /\ AllAccepted
    /\ ConsistentFor(1)
    /\ upload_record.TotalChunks = 3
    /\ upload_record.UploadedChunks = 1
    /\ Len(Submitted) = 2

\* The record Upload works on has total size 0, and the run ended without a failed
\* listing, seek, request or chunk submission.
EmptyUploadEnded ==
    /\ up_pc \in {"return", "panic"}
    /\ upload_record.ID = upload_id
    /\ Len(Data) > 0
    /\ upload_record.TotalSize = 0
    /\ up_pc = "return" => up_result.err \in {NilErr, ErrUploadNoResp}

\* C28: when the server record's total size is 0, Upload performs exactly one
\* chunk submission, of declared size 0, and then goes to finalization, whatever
\* the reply holds.
C28_EmptyUploadSubmitsOneEmptyChunk ==
    EmptyUploadEnded =>
        /\ up_pc = "return"
        /\ Len(Submitted) = 1
        /\ Submitted[1].size = 0

\* The submissions of the chunk Upload sent last.
AttemptsOfLastChunk ==
    {k \in DOMAIN Submitted : Submitted[k].index = Submitted[Len(Submitted)].index}

\* C25: each chunk is submitted through Call's retry loop: when Upload gives up on
\* a chunk with an error intersecting {internal-server-error, token-error}, the
\* chunk has been submitted Retries + 1 times.
C25_ChunkFailureRetriedUpToBudget ==
    (up_pc = "return" /\ KWAPIError(up_result.err, RetryMask)) =>
        Cardinality(AttemptsOfLastChunk) = Retries + 1

\* ------------------- the registry with several transfers, without byte counts
\* The transfers of RegistrySpec: each is registered and closed by its own caller
\* and none records a byte, so showRate always returns at line 157.
MaxRegistered == 2
Registered == 1..MaxRegistered

\* The state before TransferMonitor is first called, for the records 1..n.
MonitorIdleFor(n) ==
    /\ monitors = <<>>
    /\ update_lock = "free"
    /\ loops = 0
    /\ flag = [r \in 1..n |-> 0]
    /\ total = [r \in 1..n |-> 0]
    /\ transfered = [r \in 1..n |-> 0]
    /\ offset = [r \in 1..n |-> 0]
    /\ logs = [r \in 1..n |-> 0]
    /\ loop_logged = [r \in 1..n |-> FALSE]
    /\ t_pc = [r \in 1..n |-> "new"]
    /\ t_tmp = [r \in 1..n |-> 0]
    /\ t_did = [r \in 1..n |-> [seek |-> FALSE, reclose |-> FALSE]]
    /\ loop_pc = "off"
    /\ loop_monitors = <<>>
    /\ loop_i = 0
    /\ loop_v = 0
    /\ loop_n = 0
    /\ sp_pc = [p \in 0..n |-> "ret"]
    /\ sp_rec = [p \in 0..n |-> 0]
    /\ sp_tmp = [p \in 0..n |-> 0]

InitRegistry ==
    /\ MonitorIdleFor(MaxRegistered)
    /\ CallIdle
    /\ ChunkIdle
    /\ UploadIdle
    /\ ErrorIdle
    /\ DownloadIdle
    /\ SnoopIdle
    /\ SharedIdle
    /\ StreamIdle
    /\ RespIdle

\* showTransfer for a record with no byte recorded.
ShowIdle(p) ==
    \/ RateLoadTransfered(p) \/ ShowOutput(p) \/ ShowUnsetLoad(p) \/ ShowUnsetStoreLog(p)

NextRegistry ==
    \/ LoopLock \/ Cleanup \/ CleanupDone \/ Display \/ LoopSleep \/ ShowIdle(0)
    \/ \E r \in Registered :
          \/ Register(r) \/ CloseBegin(r) \/ CloseSetLoad(r) \/ CloseSetStore(r)
          \/ ShowIdle(r)

RegistrySpec == InitRegistry /\ [][NextRegistry]_vars

\* C22: for any interleaving of registrations, Close calls and loop steps, at most
\* one background loop is running at any time, and a loop is running whenever the
\* registry is non-empty.
C22_OneLoopWhileRegistryNonEmpty ==
    /\ loops <= 1
    /\ monitors # <<>> => loops = 1

\* Transfer 1 has been closed and removed, transfer 2 is registered, and one loop
\* is in its display pass.
C22_Witness ==
    /\ t_pc[1] = "closed"
    /\ monitors = <<2>>
    /\ loops = 1
    /\ loop_pc = "display"

\* ------------------------------------------- the cleanup pass on its own
\* The registry of CleanupSpec holds up to MaxRegistry records in the order of
\* their registration and is not empty (the loop returns in the pass that empties
\* it); the loop is about to take the lock; the caller of each record has either
\* returned from Close or is in Close, before line 99, where the loop may have
\* written trans_active back; a record that has left the registry is closed.
MaxRegistry == 3

\* The sub-sequences of <<1, ..., n>>: registration appends, removal keeps order.
RECURSIVE Registries(_)
Registries(n) ==
    IF n = 0 THEN {<<>>}
    ELSE Registries(n - 1) \cup {Append(reg, n) : reg \in Registries(n - 1)}

InitCleanup ==
    /\ monitors \in Registries(MaxRegistry) \ {<<>>}
    /\ update_lock = "free"
    /\ loops = 1
    /\ t_pc \in [1..MaxRegistry -> {"showTransfer", "closed"}]
    /\ \A r \in 1..MaxRegistry :
         (\A k \in DOMAIN monitors : monitors[k] # r) => t_pc[r] = "closed"
    /\ \E active \in [1..MaxRegistry -> {0, trans_active}] :
         flag = [r \in 1..MaxRegistry |->
                    IF t_pc[r] = "closed" THEN trans_closed ELSE active[r]]
    /\ total = [r \in 1..MaxRegistry |-> MaxBytes]
    /\ transfered = [r \in 1..MaxRegistry |-> 0]
    /\ offset = [r \in 1..MaxRegistry |-> 0]
    /\ logs = [r \in 1..MaxRegistry |-> 0]
    /\ loop_logged = [r \in 1..MaxRegistry |-> FALSE]
    /\ t_tmp = [r \in 1..MaxRegistry |-> 0]
    /\ t_did = [r \in 1..MaxRegistry |-> [seek |-> FALSE, reclose |-> FALSE]]
    /\ loop_pc = "Lock"
    /\ loop_monitors = <<>>
    /\ loop_i = 0
    /\ loop_v = 0
    /\ loop_n = 0
    /\ sp_pc = [p \in 0..MaxRegistry |-> "ret"]
    /\ sp_rec = [p \in 0..MaxRegistry |-> 0]
    /\ sp_tmp = [p \in 0..MaxRegistry |-> 0]
    /\ CallIdle
    /\ ChunkIdle
    /\ UploadIdle
    /\ ErrorIdle
    /\ DownloadIdle
    /\ SnoopIdle
    /\ SharedIdle
    /\ StreamIdle
    /\ RespIdle

NextCleanup ==
    \/ LoopLock \/ Cleanup \/ CleanupDone
    \/ \E r \in 1..MaxRegistry : CloseSetLoad(r) \/ CloseSetStore(r)

CleanupSpec == InitCleanup /\ [][NextCleanup]_vars

\* The registry without the record r, the others in their order.
Without(registry, r) == SelectSeq(registry, LAMBDA x : x # r)
InRegistry(r) == \E k \in DOMAIN monitors : monitors[k] = r
Examined(r) == \E k \in DOMAIN loop_monitors : loop_monitors[k] = r

\* C30: each cleanup pass removes exactly the records that are closed when it
\* examines them and keeps every other record in its original relative order; a
\* record that is not closed is never removed, and the pass examines every record.
C30_CleanupRemovesExactlyClosed ==
    [][loop_pc = "cleanup" =>
        IF loop_i' # loop_i
        THEN LET r == monitors[loop_i] IN
               monitors' = IF Has(flag[r], trans_closed) THEN Without(monitors, r)
                           ELSE monitors
        ELSE /\ monitors' = monitors
             /\ loop_pc' # "cleanup" => \A r \in 1..MaxRegistry : InRegistry(r) => Examined(r)
    ]_vars

\* A pass over three records has removed the closed one in the middle and kept
\* the other two in their order.
C30_Witness ==
    /\ loop_pc = "display"
    /\ monitors = <<1, 3>>
    /\ Has(flag[2], trans_closed)
    /\ ~Has(flag[1], trans_closed)

\* ------------------------------------------- decodeJSON with tracing (Snoop)
\* The token values a response may carry.
Tokens == {"tokenA", "tokenB"}
HIDDEN == "[HIDDEN]"

\* A response body: a JSON object (which decodes into the output type or not),
\* text that no JSON decoder accepts as an object, or nothing (io.EOF). The
\* object, and the text, may hold access_token and refresh_token at top level.
Bodies ==
    [form : {"object"}, fits : BOOLEAN,
     access_token : Tokens \cup {NoField}, refresh_token : Tokens \cup {NoField}]
    \cup [form : {"malformed"}, fits : {FALSE},
          access_token : Tokens \cup {NoField}, refresh_token : Tokens \cup {NoField}]
    \cup [form : {"empty"}, fits : {FALSE},
          access_token : {NoField}, refresh_token : {NoField}]

\* What is written to the trace: the status line, an indented JSON object with
\* the values of its token fields, the JSON null, or the text as it was read.
StatusLine == [line |-> "status", access_token |-> NoField, refresh_token |-> NoField]
JSONLine(access, refresh) ==
    [line |-> "json", access_token |-> access, refresh_token |-> refresh]
NullLine == [line |-> "null", access_token |-> NoField, refresh_token |-> NoField]
RawLine(body) ==
    [line |-> "raw", access_token |-> body.access_token,
     refresh_token |-> body.refresh_token]

\* snoop_request, lines 275-283: a refresh_token or access_token key that is
\* present gets the value "[HIDDEN]".
Hide(value) == IF value = NoField THEN NoField ELSE HIDDEN

\* func snoop_request(body): the decode error, and the lines it emits.
snoop_request(body) ==
    IF body.form # "object"
    THEN [err |-> OtherErr("decode"), out |-> <<>>]
    ELSE [err |-> NilErr,
          out |-> <<JSONLine(Hide(body.access_token), Hide(body.refresh_token))>>]

\* decodeJSON, lines 236-263: the error it returns (nil without an output slot
\* and for io.EOF).
DecodeResult(body, output) ==
    IF ~output \/ body.form = "empty" THEN NilErr
    ELSE IF body.form = "object" /\ body.fits THEN NilErr
    ELSE OtherErr("decode")

\* decodeJSON, lines 221-263: what a call emits. Without an output slot the body
\* is decoded into a map and printed by decodeJSON itself (lines 222-228); with
\* one, snoop_request prints it, and the text as read is printed when the decode
\* failed and snoop_request could not decode it either (lines 245-249).
Emitted(body, output, snoop) ==
    IF ~snoop THEN <<>>
    ELSE IF ~output
    THEN <<StatusLine,
           IF body.form = "object" THEN JSONLine(body.access_token, body.refresh_token)
           ELSE NullLine>>
    ELSE IF body.form = "empty" THEN <<StatusLine>>
    ELSE IF DecodeResult(body, output) # NilErr /\ snoop_request(body).err # NilErr
    THEN <<StatusLine, RawLine(body)>>
    ELSE <<StatusLine>> \o snoop_request(body).out

InitSnoop ==
    /\ Snoop \in BOOLEAN
    /\ sn_body \in Bodies
    /\ sn_output \in BOOLEAN
    /\ sn_pc = "decodeJSON"
    /\ sn_err = NilErr
    /\ sn_emitted = <<>>
    /\ CallIdle
    /\ ChunkIdle
    /\ UploadIdle
    /\ MonitorIdle
    /\ ErrorIdle
    /\ DownloadIdle
    /\ SharedIdle
    /\ StreamIdle
    /\ RespIdle

\* func (K *KWAPI) decodeJSON(resp, output)
decodeJSON ==
    /\ sn_pc = "decodeJSON"
    /\ sn_emitted' = Emitted(sn_body, sn_output, Snoop)
    /\ sn_err' = DecodeResult(sn_body, sn_output)
    /\ sn_pc' = "return"
    /\ UNCHANGED <<Snoop, sn_body, sn_output>>
    /\ UNCHANGED <<callVars, chunkVars, uploadVars, monVars, errVars, dlVars, sharedVars,
                 streamVars, respVars>>

NextSnoop == decodeJSON

SnoopSpec == InitSnoop /\ [][NextSnoop]_vars

\* The bodies that differ from body in the values of their token fields only.
SameButTokens(body) ==
    {other \in Bodies :
        /\ other.form = body.form
        /\ other.fits = body.fits
        /\ (other.access_token = NoField) <=> (body.access_token = NoField)
        /\ (other.refresh_token = NoField) <=> (body.refresh_token = NoField)}

\* C21: with tracing on, what decodeJSON emits for a response does not depend on
\* the values of its access_token and refresh_token fields, whether the output
\* slot is present or absent and whether the decode succeeds or fails.
C21_TraceIndependentOfTokenValues ==
    (sn_pc = "return" /\ Snoop) =>
        \A other \in SameButTokens(sn_body) :
            Emitted(other, sn_output, Snoop) = sn_emitted

\* ------------------------- RecordTransfer from several goroutines, one record
\* The sizes a call records, the calls of one goroutine, the starting values.
MaxSize == 2
MaxCalls == 2
MaxStart == 1

InitShared ==
    /\ rt_start \in 0..MaxStart
    /\ rt_transfered = rt_start
    /\ rt_pc = [c \in Callers |-> "idle"]
    /\ rt_sz = [c \in Callers |-> 0]
    /\ rt_tmp = [c \in Callers |-> 0]
    /\ rt_calls = [c \in Callers |-> 0]
    /\ rt_recorded = 0
    /\ rt_seen = rt_start
    /\ CallIdle
    /\ ChunkIdle
    /\ UploadIdle
    /\ MonitorIdle
    /\ ErrorIdle
    /\ DownloadIdle
    /\ SnoopIdle
    /\ StreamIdle
    /\ RespIdle

SharedFrame ==
    UNCHANGED <<callVars, chunkVars, uploadVars, monVars, errVars, dlVars, snoopVars,
                streamVars, respVars>>

\* RecordTransfer(current_sz), the inner call: atomic.LoadInt64(&t.transfered).
SharedLoad(c) ==
    /\ rt_pc[c] = "idle"
    /\ rt_calls[c] < MaxCalls
    /\ \E current_sz \in 1..MaxSize : rt_sz' = [rt_sz EXCEPT ![c] = current_sz]
    /\ rt_tmp' = [rt_tmp EXCEPT ![c] = rt_transfered]
    /\ rt_pc' = [rt_pc EXCEPT ![c] = "Store"]
    /\ UNCHANGED <<rt_transfered, rt_start, rt_calls, rt_recorded, rt_seen>>
    /\ SharedFrame

\* RecordTransfer, the outer call: atomic.StoreInt64(&t.transfered, loaded + current_sz).
SharedStore(c) ==
    /\ rt_pc[c] = "Store"
    /\ rt_transfered' = rt_tmp[c] + rt_sz[c]
    /\ rt_recorded' = rt_recorded + rt_sz[c]
    /\ rt_calls' = [rt_calls EXCEPT ![c] = @ + 1]
    /\ rt_pc' = [rt_pc EXCEPT ![c] = "idle"]
    /\ rt_sz' = [rt_sz EXCEPT ![c] = 0]
    /\ rt_tmp' = [rt_tmp EXCEPT ![c] = 0]
    /\ UNCHANGED <<rt_start, rt_seen>>
    /\ SharedFrame

\* showRate, line 154: the display loop's atomic.LoadInt64(&t.transfered).
SharedRead ==
    /\ rt_seen' = rt_transfered
    /\ UNCHANGED <<rt_transfered, rt_start, rt_pc, rt_sz, rt_tmp, rt_calls, rt_recorded>>
    /\ SharedFrame

NextShared == SharedRead \/ \E c \in Callers : SharedLoad(c) \/ SharedStore(c)

SharedRecordSpec == InitShared /\ [][NextShared]_vars

\* C23: updates of a record's transferred counter are atomic: for any
\* interleaving of concurrent RecordTransfer calls on the same record with each
\* other and with the display loop's reads, once the calls have returned the
\* counter equals its starting value plus the sum of all recorded sizes.
C23_CounterIsStartPlusRecorded ==
    (\A c \in Callers : rt_pc[c] = "idle") => rt_transfered = rt_start + rt_recorded

\* ------------------------------- further claims about error classification
\* C31: within one classification pass the flag bits only grow: after each
\* AddError call on a KWError the bit-set is a superset of the bit-set before it.
C31_FlagBitsOnlyGrow ==
    [][err_e.kind = "kw" => BitAnd(err_e.flag, err_e'.flag) = err_e.flag]_vars

\* Two calls have set two different bits.
C31_Witness ==
    /\ Len(err_codes) = 2
    /\ err_e.flag = BitOr(ERR_ENTITY_EXISTS, ERR_INVALID_GRANT)

\* The codes that hold the internal-error marker, whatever their casing.
InternalWords == {"ERR_INTERNAL_SERVER_ERROR", "ERR_INTERNAL_DB_ERROR"}

\* C32: for a code that matches no table entry, AddError sets the
\* internal-server-error bit if the code contains the internal-error marker and
\* otherwise sets no bit; in both cases exactly one message is appended, after all
\* earlier messages.
C32_UnmatchedCodeSetsInternalOrNothing ==
    [][(Len(err_codes') = Len(err_codes) + 1
        /\ err_codes'[Len(err_codes')].word \notin TableWords) =>
          /\ err_e'.flag = IF err_codes'[Len(err_codes')].word \in InternalWords
                           THEN BitOr(err_e.flag, ERR_INTERNAL_SERVER_ERROR)
                           ELSE err_e.flag
          /\ SubSeq(err_codes', 1, Len(err_codes)) = err_codes]_vars

\* A lower-case internal code was added after an unknown one and set the bit.
C32_Witness ==
    /\ Len(err_codes) = 2
    /\ err_codes[1] = Str("ERR_UNKNOWN", "mixed")
    /\ err_codes[2] = Str("ERR_INTERNAL_DB_ERROR", "lower")
    /\ err_e.flag = ERR_INTERNAL_SERVER_ERROR

\* ------------------------------------------------ further claims about Call
\* At least one attempt was made, and every attempt met a vendor error whose bits
\* intersect {internal-server-error, token-error}.
AllAttemptsRetryable ==
    /\ Attempts >= 1
    /\ \A k \in AttemptEvents : KWAPIError(DoErr(call_log[k].answer), RetryMask)

\* No step of any reauthentication failed.
AllReAuthsSucceeded ==
    \A k \in DOMAIN call_log :
        /\ call_log[k].ev \in {"refresh", "save", "attach", "setToken"} => call_log[k].arg # 0
        /\ call_log[k].ev = "reAuth" => call_log[k].arg # -1
        /\ call_log[k].ev # "fatal"

\* C33: if every attempt of a Call fails with an error intersecting
\* {internal-server-error, token-error} and every reauthentication succeeds, Call
\* performs exactly Retries + 1 attempts and then returns the classified error of
\* the last attempt, never nil.
C33_ExhaustedRetriesReturnLastError ==
    (call_pc = "return" /\ AllAttemptsRetryable /\ AllReAuthsSucceeded) =>
        /\ Attempts = Retries + 1
        /\ call_err = DoErr(call_log[AttemptEntry(Attempts)].answer)
        /\ call_err # NilErr

\* Three attempts, the first two refused for the token and the last one failing
\* inside the server, were all made, and the last error was returned.
C33_Witness ==
    /\ call_pc = "return"
    /\ Retries = 2
    /\ Attempts = 3
    /\ AllReAuthsSucceeded
    /\ call_log[AttemptEntry(1)].answer.flag = ERR_AUTH_UNAUTHORIZED
    /\ call_log[AttemptEntry(3)].answer.flag = ERR_INTERNAL_SERVER_ERROR
    /\ call_err = KWError(ERR_INTERNAL_SERVER_ERROR)

\* ------------------------------------------- the end of an Upload invocation
\* C34: for every server upload record with totalChunks >= 1 (any totalSize,
\* uploadedChunks and uploadedSize) and a server that answers every chunk, the
\* upload loop performs finitely many submissions and Upload returns. Stated
\* through the loop's variant: a chunk about to be submitted carries bytes, or
\* belongs to an empty upload, which ends after it, or comes before the final
\* chunk, whose size is all that remains; any other chunk leaves the loop where it
\* was, with nothing that could change on a later pass.
C34_EveryChunkAdvancesTheUpload ==
    (up_pc = "Do" /\ upload_record.TotalChunks >= 1) =>
        \/ ChunkSize > 0
        \/ upload_record.TotalSize = 0
        \/ ChunkIndex < upload_record.TotalChunks

\* C35: for every listing the server can return for the requested ID, a matching
\* record whose totalChunks is 0 included, Upload ends by returning a result ID or
\* an error value; it never faults while deriving the chunk size as
\* totalSize / totalChunks.
C35_NoFaultDerivingChunkSize == up_pc # "panic"

\* C36: every Upload invocation that registers a transfer record leaves that
\* record closed when it returns (the deferred tm.Close() has returned), so the
\* record cannot keep the background loop alive: a cleanup pass that examines a
\* record whose Close has returned removes it from the registry. (Stated for the
\* records with a known total size, as Upload's are.)
C36_ClosedRecordLeavesTheRegistry ==
    [][(/\ loop_pc = "cleanup"
        /\ loop_i >= 1
        /\ loop_i' = loop_i - 1
        /\ total[monitors[loop_i]] > -1
        /\ t_pc[monitors[loop_i]] = "closed") =>
            Len(monitors') < Len(monitors)]_vars

\* -------------------------------------------- a transfer resumed at an offset
\* The total sizes of the resumed transfers. A transfer resumed at MaxBytes needs
\* a total above it to have bytes left to send.
MaxTotal == 2

\* TransferMonitor(name, total_sz) has returned for every record, as at line 270
\* of Upload and line 382 of the download wrapper, where Offset is called next.
InitResume ==
    /\ monitors = [r \in Records |-> r]
    /\ update_lock = "free"
    /\ loops = 1
    /\ flag = [r \in Records |-> trans_active]
    /\ total \in [Records -> 1..MaxTotal]
    /\ transfered = [r \in Records |-> 0]
    /\ offset = [r \in Records |-> 0]
    /\ logs = [r \in Records |-> 0]
    /\ loop_logged = [r \in Records |-> FALSE]
    /\ t_pc = [r \in Records |-> "open"]
    /\ t_tmp = [r \in Records |-> 0]
    /\ t_did = [r \in Records |-> [seek |-> FALSE, reclose |-> FALSE]]
    /\ loop_pc = "Lock"
    /\ loop_monitors = <<>>
    /\ loop_i = 0
    /\ loop_v = 0
    /\ loop_n = 0
    /\ sp_pc = [p \in Procs |-> "ret"]
    /\ sp_rec = [p \in Procs |-> 0]
    /\ sp_tmp = [p \in Procs |-> 0]
    /\ CallIdle
    /\ ChunkIdle
    /\ UploadIdle
    /\ ErrorIdle
    /\ DownloadIdle
    /\ SnoopIdle
    /\ SharedIdle
    /\ StreamIdle
    /\ RespIdle

NextResume ==
    \/ LoopNext
    \/ \E r \in Records :
        \/ RecordTransferLoad(r) \/ RecordTransferStore(r)
        \/ OffsetTransfered(r) \/ OffsetOffset(r)
        \/ CloseBegin(r) \/ CloseSetLoad(r) \/ CloseSetStore(r) \/ ShowNext(r)

ResumeSpec == InitResume /\ [][NextResume]_vars

\* C39: a transfer record is marked complete only in a state where its
\* transferred byte count equals its total size, whatever offset the caller set:
\* the step of showRate that decides to set trans_complete is taken with
\* transfered equal to total_size.
C39_CompleteOnlyAtTotalSize ==
    [][\A p \in DOMAIN sp_pc :
        (sp_pc[p] = "isTotal" /\ sp_pc'[p] = "setComplete") =>
            transfered[sp_rec[p]] = total[sp_rec[p]]]_vars

\* ----------------------- streamReadCloser.Read, the body of one chunk's request
\* The declared chunk sizes, the bytes a source holds, and len(p) of a Read.
MaxChunk == 4
MaxSource == 4
MaxP == 2

Min(a, b) == IF a < b THEN a ELSE b

\* n copies of one part.
RECURSIVE Parts(_, _)
Parts(part, n) == IF n = 0 THEN <<>> ELSE <<part>> \o Parts(part, n - 1)

\* Upload, lines 301-346: the form fields and the header of the content part are
\* in w_buff when the stream is built, with size 0, a full read buffer and eof false.
InitStream ==
    /\ st_chunkSize \in 0..MaxChunk
    /\ st_held \in 0..MaxSource
    /\ st_source = st_held
    /\ st_size = 0
    /\ st_rlen = RBuffLen
    /\ st_wbuff = <<"header">>
    /\ st_eof = FALSE
    /\ st_closes = 0
    /\ st_tm = 0
    /\ st_out = <<>>
    /\ st_ret = "open"
    /\ CallIdle
    /\ ChunkIdle
    /\ UploadIdle
    /\ MonitorIdle
    /\ ErrorIdle
    /\ DownloadIdle
    /\ SnoopIdle
    /\ SharedIdle
    /\ RespIdle

StreamFrame ==
    UNCHANGED <<callVars, chunkVars, uploadVars, monVars, errVars, dlVars, snoopVars,
                sharedVars, respVars>>

\* s.w_buff.Read(p): up to len(p) parts of the buffer; io.EOF from an empty
\* buffer (len(p) is positive).
BufferRead(buff, lenp) ==
    IF buff = <<>> THEN [n |-> 0, err |-> "EOF"]
    ELSE [n |-> Min(lenp, Len(buff)), err |-> "nil"]

\* What Read returns from s.w_buff.Read(p), and what stays in the buffer.
HandOut(buff, lenp) ==
    LET got == BufferRead(buff, lenp) IN
    /\ st_out' = st_out \o SubSeq(buff, 1, got.n)
    /\ st_wbuff' = SubSeq(buff, got.n + 1, Len(buff))
    /\ st_ret' = IF got.err = "EOF" THEN "EOF" ELSE "open"

\* Lines 170-175: the buffer holds data, which is handed out.
ReadBuffered ==
    /\ st_ret = "open"
    /\ Len(st_wbuff) > 0
    /\ \E lenp \in 1..MaxP : HandOut(st_wbuff, lenp)
    /\ UNCHANGED <<st_chunkSize, st_size, st_rlen, st_eof, st_closes, st_source, st_held,
                   st_tm>>
    /\ StreamFrame

\* Lines 178-183: the buffer is empty and eof is set: s.Close(), which writes the
\* closing boundary into w_buff, and return 0, io.EOF.
ReadAtEOF ==
    /\ st_ret = "open"
    /\ Len(st_wbuff) = 0
    /\ st_eof
    /\ st_closes' = st_closes + 1
    /\ st_wbuff' = <<"boundary">>
    /\ st_ret' = "EOF"
    /\ UNCHANGED <<st_chunkSize, st_size, st_rlen, st_eof, st_source, st_held, st_tm,
                   st_out>>
    /\ StreamFrame

\* s.source.Read(s.r_buff) on a buffer of length len with held bytes left: at
\* least one byte and no more than the buffer when there are bytes and room, with
\* io.EOF only when nothing is left after it; nothing from an empty buffer; or
\* the failure of the timeout reader.
SourceReads(len, held) ==
    {[n |-> k, err |-> "nil"] : k \in (IF len = 0 THEN 0 ELSE 1)..Min(len, held)}
    \cup {[n |-> k, err |-> "EOF"] : k \in {j \in 0..Min(len, held) : j = held}}
    \cup {[n |-> 0, err |-> "fail"]}

\* Lines 185-212: the buffer is empty and eof is not set: the last read of the
\* chunk is announced when at most a buffer is missing, the source is read, and
\* what was read goes through the multipart writer into w_buff.
ReadSource ==
    /\ st_ret = "open"
    /\ Len(st_wbuff) = 0
    /\ ~st_eof
    /\ LET last == st_chunkSize - st_size <= RBuffLen
           len == IF last THEN st_chunkSize - st_size ELSE st_rlen
       IN
       /\ st_rlen' = len
       /\ \E got \in SourceReads(len, st_source), lenp \in 1..MaxP :
            IF got.err = "fail"
            THEN /\ st_ret' = "error"
                 /\ st_eof' = last
                 /\ UNCHANGED <<st_size, st_wbuff, st_closes, st_source, st_tm, st_out>>
            ELSE LET eof == last \/ got.err = "EOF"
                     written == Parts("data", got.n)
                                  \o (IF got.n > 0 /\ eof THEN <<"boundary">> ELSE <<>>)
                 IN
                 /\ st_eof' = eof
                 /\ st_size' = st_size + got.n
                 /\ st_source' = st_source - got.n
                 /\ st_tm' = st_tm + got.n
                 /\ st_closes' = IF got.n > 0 /\ eof THEN st_closes + 1 ELSE st_closes
                 /\ HandOut(written, lenp)
    /\ UNCHANGED <<st_chunkSize, st_held>>
    /\ StreamFrame

NextStream == ReadBuffered \/ ReadAtEOF \/ ReadSource

StreamSpec == InitStream /\ [][NextStream]_vars

\* The bytes of the source that went into the content part.
Relayed == Len(SelectSeq(st_out \o st_wbuff, LAMBDA part : part = "data"))

\* C37: the bytes relayed from the source into the content part of a chunk are
\* never more than the declared chunk size, and when the stream has ended on a
\* source that held at least the declared size they are exactly the declared
\* size, however short the source's reads were; the count given to the transfer
\* record is the distance the source has moved.
C37_ChunkRelaysItsDeclaredSize ==
    /\ Relayed <= st_chunkSize
    /\ st_tm = st_held - st_source
    /\ (st_ret = "EOF" /\ st_held >= st_chunkSize) => Relayed = st_chunkSize

\* C38: when the body stream of a chunk reports EOF, the multipart writer has
\* been closed and its closing boundary has been handed to the reader, for every
\* declared size, 0 included, and every behaviour of the source.
C38_BoundaryDeliveredBeforeEOF ==
    st_ret = "EOF" =>
        /\ st_closes >= 1
        /\ \E k \in DOMAIN st_out : st_out[k] = "boundary"

\* ------------------------------------ KWAPI.respError and Call's test of it
\* The status lines of the responses: resp.StatusCode and resp.Status, which is
\* the code and the reason phrase as the server sent them.
StatusLines ==
    {[StatusCode |-> 200, Status |-> "200 OK"],
     [StatusCode |-> 401, Status |-> "401 Unauthorized"],
     [StatusCode |-> 401, Status |-> "401 Unathorized"],
     [StatusCode |-> 401, Status |-> "401"],
     [StatusCode |-> 403, Status |-> "403 Forbidden"],
     [StatusCode |-> 503, Status |-> "503 Service Unavailable"]}

\* The bodies: a JSON object with an errors list, one with error and
\* error_description, another JSON object, text that is not JSON, and nothing.
ResponseBodies ==
    {[form |-> f, codes |-> <<c>>] : f \in {"errors", "oauth"}, c \in Codes}
    \cup {[form |-> f, codes |-> <<>>] : f \in {"object", "text", "empty"}}

Responses ==
    {[StatusCode |-> s.StatusCode, Status |-> s.Status, Body |-> b] :
        s \in StatusLines, b \in ResponseBodies}

\* e.AddError for each code of a list, from the first to the last.
RECURSIVE FlagOf(_)
FlagOf(codes) ==
    IF codes = <<>> THEN 0
    ELSE AddErrorFlag(FlagOf(SubSeq(codes, 1, Len(codes) - 1)), codes[Len(codes)])

\* json.Unmarshal(output, &kite_err) leaves kite_err nil unless the body is a
\* JSON object.
IsKiteErr(body) == body.form \in {"errors", "oauth", "object"}

\* func (K *KWAPI) respError(resp), with the outcome of ioutil.ReadAll.
respError(response, read_ok) ==
    IF response = NoResp THEN NilErr
    ELSE IF response.StatusCode >= 200 /\ response.StatusCode < 300 THEN NilErr
    ELSE IF ~read_ok THEN OtherErr("read")
    ELSE IF IsKiteErr(response.Body) THEN KWError(FlagOf(response.Body.codes))
    ELSE IF response.Status = "401 Unathorized"
         THEN KWError(FlagOf(<<Str("ERR_AUTH_UNAUTHORIZED", "upper")>>))
    ELSE OtherErr("status")

\* KWAPIClient.Do has the response of c.Client.Do and is about to call respError.
InitResponse ==
    /\ re_resp \in Responses
    /\ re_read \in BOOLEAN
    /\ re_pc = "respError"
    /\ re_err = NilErr
    /\ CallIdle
    /\ ChunkIdle
    /\ UploadIdle
    /\ MonitorIdle
    /\ ErrorIdle
    /\ DownloadIdle
    /\ SnoopIdle
    /\ SharedIdle
    /\ StreamIdle

ResponseFrame ==
    UNCHANGED <<callVars, chunkVars, uploadVars, monVars, errVars, dlVars, snoopVars,
                sharedVars, streamVars>>

\* KWAPIClient.Do, lines 160-161: err = c.session.respError(resp); return.
DoRespError ==
    /\ re_pc = "respError"
    /\ re_err' = respError(re_resp, re_read)
    /\ re_pc' = "Call"
    /\ UNCHANGED <<re_resp, re_read>>
    /\ ResponseFrame

\* Call, lines 420-429: a vendor error in the retry mask goes to reAuth, another
\* error breaks out of the loop, no error goes on to decodeJSON.
CallTest ==
    /\ re_pc = "Call"
    /\ re_pc' = IF re_err # NilErr /\ KWAPIError(re_err, RetryMask) THEN "reAuth"
                ELSE IF re_err # NilErr THEN "break"
                ELSE "decodeJSON"
    /\ UNCHANGED <<re_resp, re_read, re_err>>
    /\ ResponseFrame

NextResponse == DoRespError \/ CallTest

ResponseSpec == InitResponse /\ [][NextResponse]_vars

\* C40: a 401 response whose body is read and is not JSON at all, so not a
\* vendor error payload, is classified as auth-unauthorized: respError's result
\* is a vendor error with ERR_AUTH_UNAUTHORIZED, it intersects the token-error
\* mask, and Call goes to reAuth with it.
C40_Plain401IsAuthUnauthorized ==
    (/\ re_pc \in {"Call", "reAuth", "break", "decodeJSON"}
     /\ re_resp.StatusCode = 401
     /\ ~IsKiteErr(re_resp.Body)
     /\ re_read) =>
        /\ re_err.kind = "kw"
        /\ Has(re_err.flag, ERR_AUTH_UNAUTHORIZED)
        /\ KWAPIError(re_err, TOKEN_ERR)
        /\ re_pc \in {"Call", "reAuth"}
====
